---- MODULE Spec2Model ----
(***************************************************************************)
(* Model of slicks' adaptive chunked query engine                          *)
(* (src/src/slicks/query_utils.py) and of its callers' pure parts          *)
(* (src/src/slicks/discovery.py, src/src/slicks/scanner.py).               *)
(*                                                                         *)
(*   Spec    run_chunks_parallel: the collecting thread (submit loop,      *)
(*           as_completed loop, except/finally handlers, pool shutdown)    *)
(*           interleaved with the pool's worker threads.                   *)
(*   SpecAQ  adaptive_query: the sequential recursion, one frame per       *)
(*           call, with primary_fn / fallback_fn outcomes chosen           *)
(*           nondeterministically.  SpecAQFair adds the fairness of a      *)
(*           running call; in SpecAQOwn the query functions raise          *)
(*           PermanentQueryError themselves.                               *)
(*   SpecCL  is_permanent_error applied to a family of messages.           *)
(*   SpecCB  _compress_bins applied to every short list of samples.        *)
(*   SpecCF  connect_influxdb3 called any number of times on the module    *)
(*           globals of src/src/slicks/config.py.                          *)
(*   SpecPR  process_range inside _fetch_bins_adaptive: the recursive      *)
(*           generators, with every query's outcome chosen                  *)
(*           nondeterministically.                                         *)
(*   SpecDS  discover_sensors: the chunk loop, run_chunks_parallel with    *)
(*           adaptive_query as query_fn against a deterministic server,    *)
(*           and the final sorted(set(...)).                               *)
(***************************************************************************)
EXTENDS Integers, Sequences, FiniteSets, TLC

(* ------------------------------------------------------------------ *)
(* Bounds of the model                                                  *)
(* ------------------------------------------------------------------ *)
MaxChunks == 3
MaxWorkers == 2
MaxRows == 1
MaxSpan == 4
MaxDepth == 2
MaxMinSpan == 2
MaxPad == 2
MaxCalls == 2
MaxPairs == 4
MaxStart == 2
MaxBins == 10

VARIABLES
    \* ---- run_chunks_parallel ----
    n,              \* len(chunks)
    max_workers,    \* the max_workers argument
    on_chunk_done,  \* TRUE when a callback is supplied, FALSE for None
    pc,             \* position of the calling (collecting) thread
    pool,           \* "none" | "open" | "shutdown": the ThreadPoolExecutor
    clients,        \* len(clients): connections obtained from client_factory
    closes,         \* closes[i]: number of close() calls on clients[i]
    fstate,         \* fstate[i]: state of the future of chunk i
    fresult,        \* fresult[i]: rows stored in the future by a normal return
    fexc,           \* fexc[i]: exception stored in the future ("none" if none)
    qhead,          \* number of work items the workers have taken off the queue
    yielded,        \* futures as_completed has already yielded
    results,        \* the results dict, as (idx, rows) pairs in insertion order
    idx,            \* the collecting thread's loop variable idx
    done_calls,     \* arguments of the on_chunk_done calls made so far, in order
    cancel_i,       \* position of the except handler's loop over future_to_idx
    close_i,        \* position of the finally block's loop over clients
    raising,        \* exception in flight in the calling thread ("none" if none)
    outcome,        \* how the call ended: "none" while it runs
    returned,       \* rows handed to the caller
    \* ---- adaptive_query ----
    aq_t0,          \* t0 of the top-level call
    aq_t1,          \* t1 of the top-level call
    aq_fallback,    \* TRUE when fallback_fn is supplied, FALSE for None
    aq_min_span,    \* min_span in microseconds, NoSpan for None
    aq_max_depth,   \* max_depth
    aq_failures,    \* the exceptions primary_fn and fallback_fn raise in this call
    aq_stack,       \* the active adaptive_query frames, innermost last
    aq_status,      \* "idle" | "run" | "returned" | "raised"
    aq_val,         \* the list the top-level call returned
    aq_exc,         \* the exception the top-level call raised
    aq_log,         \* the primary_fn / fallback_fn calls made so far, in order
    aq_leaves,      \* the ranges of the calls that returned without recursing
    \* ---- is_permanent_error ----
    cl_msg,         \* str(exc) of the exception being classified
    cl_expect,      \* TRUE when cl_msg was built around a permanent signature
    cl_calls,       \* number of is_permanent_error calls made on cl_msg
    cl_result,      \* what the last call returned
    \* ---- _compress_bins ----
    cb_pairs,       \* the pairs argument: (bucket_start, n) samples, any order
    cb_step,        \* the step argument
    cb_pc,          \* "idle" | "ready" | "done"
    cb_windows,     \* the list _compress_bins returned
    \* ---- discover_sensors ----
    ds_start,       \* start_time, in seconds
    ds_end,         \* end_time, in seconds
    ds_chunk_days,  \* chunk_size_days
    ds_client_ok,   \* TRUE when InfluxDBClient3(...) can be constructed
    ds_limit,       \* the server fails recoverably on spans above this many seconds
    ds_bad,         \* the server refuses queries whose range holds this instant
    ds_data,        \* the rows of the table: [t, name], name Null for NULL
    ds_pc,          \* "idle" | "build" | "run" | "done"
    ds_cur,         \* the loop variable cur
    ds_chunks,      \* the chunks list
    ds_queries,     \* ds_queries[i]: client.query calls made for chunk i
    ds_status,      \* "none" | "returned" | "raised"
    ds_exc,         \* the exception discover_sensors raised
    ds_result,      \* the list discover_sensors returned
    \* ---- config ----
    INFLUX_URL,     \* the module globals of config.py
    INFLUX_TOKEN,
    INFLUX_ORG,
    INFLUX_DB,
    INFLUX_SCHEMA,
    INFLUX_TABLE,
    cf_call,        \* the db and table arguments of the latest connect_influxdb3 call
    \* ---- process_range (in _fetch_bins_adaptive) ----
    pr_t0,          \* t0 of the top-level call
    pr_t1,          \* t1 of the top-level call
    pr_step,        \* step
    pr_stack,       \* the active process_range generators, innermost last
    pr_status,      \* "idle" | "run" | "returned" | "raised"
    pr_out,         \* the pairs yielded to the consumer so far
    pr_last         \* the latest client.query call and its outcome

exec_vars == << n, max_workers, on_chunk_done, pc, pool, clients, closes, fstate,
                fresult, fexc, qhead, yielded, results, idx, done_calls,
                cancel_i, close_i, raising, outcome, returned >>

aq_vars == << aq_t0, aq_t1, aq_fallback, aq_min_span, aq_max_depth,
              aq_failures, aq_stack,
              aq_status, aq_val, aq_exc, aq_log, aq_leaves >>

cl_vars == << cl_msg, cl_expect, cl_calls, cl_result >>

cb_vars == << cb_pairs, cb_step, cb_pc, cb_windows >>

ds_vars == << ds_start, ds_end, ds_chunk_days, ds_client_ok, ds_limit, ds_bad,
              ds_data, ds_pc, ds_cur, ds_chunks, ds_queries, ds_status, ds_exc,
              ds_result >>

cf_vars == << INFLUX_URL, INFLUX_TOKEN, INFLUX_ORG, INFLUX_DB, INFLUX_SCHEMA,
              INFLUX_TABLE, cf_call >>

pr_vars == << pr_t0, pr_t1, pr_step, pr_stack, pr_status, pr_out, pr_last >>

vars == << exec_vars, aq_vars, cl_vars, cb_vars, ds_vars, cf_vars, pr_vars >>

\* What the actions of one component leave alone.
other_than_exec == << aq_vars, cl_vars, cb_vars, ds_vars, cf_vars, pr_vars >>
other_than_aq == << exec_vars, cl_vars, cb_vars, ds_vars, cf_vars, pr_vars >>
other_than_cl == << exec_vars, aq_vars, cb_vars, ds_vars, cf_vars, pr_vars >>
other_than_cb == << exec_vars, aq_vars, cl_vars, ds_vars, cf_vars, pr_vars >>
other_than_ds == << aq_vars, cl_vars, cb_vars, cf_vars, pr_vars >>
other_than_cf == << exec_vars, aq_vars, cl_vars, cb_vars, ds_vars, pr_vars >>
other_than_pr == << exec_vars, aq_vars, cl_vars, cb_vars, ds_vars, cf_vars >>

Chunks == 0 .. (MaxChunks - 1)

\* Rows a query_fn call on chunk i may return: a list of 0..MaxRows rows, each
\* row tagged with the chunk it came from.
Rows(i, len) == [j \in 1 .. len |-> << i, j >>]

(* ------------------------------------------------------------------ *)
(* Pure helpers                                                         *)
(* ------------------------------------------------------------------ *)

\* The keys of the results dict in insertion order.
Keys(res) == [k \in 1 .. Len(res) |-> res[k].idx]

\* results[i]
Lookup(res, i) == (CHOOSE k \in 1 .. Len(res) : res[k].idx = i)

RECURSIVE SortedSeq(_)
\* sorted(S) for a finite set S of integers.
SortedSeq(S) ==
    IF S = {} THEN << >>
    ELSE LET m == CHOOSE x \in S : \A y \in S : x <= y
         IN  << m >> \o SortedSeq(S \ {m})

\* A plausible slip: iterate the dict as it is (insertion = completion order).
InsertionOrderKeys(res) == Keys(res)

\* sorted(results.keys())
SortedKeys(res) == SortedSeq({res[k].idx : k \in 1 .. Len(res)})

RECURSIVE Extend(_, _)
\* ordered = []; for idx in keys: ordered.extend(results[idx])
Extend(res, keys) ==
    IF keys = << >> THEN << >>
    ELSE res[Lookup(res, Head(keys))].rows \o Extend(res, Tail(keys))

\* Lines 169-172: the list the call returns.
Ordered(res) == Extend(res, SortedKeys(res))

(* ------------------------------------------------------------------ *)
(* run_chunks_parallel: initial state                                   *)
(* ------------------------------------------------------------------ *)
ExecInit ==
    /\ n \in 0 .. MaxChunks
    /\ max_workers \in 1 .. MaxWorkers
    /\ on_chunk_done \in BOOLEAN
    /\ pc = "start"
    /\ pool = "none"
    /\ clients = 0
    /\ closes = [i \in Chunks |-> 0]
    /\ fstate = [i \in Chunks |-> "NotSubmitted"]
    /\ fresult = [i \in Chunks |-> << >>]
    /\ fexc = [i \in Chunks |-> "none"]
    /\ qhead = 0
    /\ yielded = {}
    /\ results = << >>
    /\ idx = -1
    /\ done_calls = << >>
    /\ cancel_i = 0
    /\ close_i = 0
    /\ raising = "none"
    /\ outcome = "none"
    /\ returned = << >>

(* ------------------------------------------------------------------ *)
(* The calling thread                                                   *)
(* ------------------------------------------------------------------ *)

\* A plausible slip: the guard dropped, the pool built for an empty input too.
NoEarlyReturn(len) == FALSE

\* Line 134: if not chunks
EmptyInput(len) == len = 0

\* Lines 134-140: the early return, or the pool is created.
Enter ==
    /\ pc = "start"
    /\ IF EmptyInput(n)
       THEN /\ pc' = "done"
            /\ outcome' = "return"
            /\ returned' = << >>
            /\ pool' = pool
       ELSE /\ pc' = "submit"
            /\ pool' = "open"
            /\ UNCHANGED << outcome, returned >>
    /\ UNCHANGED << n, max_workers, on_chunk_done, clients, closes, fstate,
                    fresult, fexc, qhead, yielded, results, idx, done_calls,
                    cancel_i, close_i, raising >>
    /\ UNCHANGED other_than_exec

\* Lines 144-148, one iteration: client_factory() returns a connection, which
\* is appended to clients, and the chunk is submitted to the pool.  After the
\* last chunk the thread enters the try block.
Submit ==
    /\ pc = "submit"
    /\ clients < n
    /\ clients' = clients + 1
    /\ fstate' = [fstate EXCEPT ![clients] = "Pending"]
    /\ pc' = IF clients + 1 = n THEN "collect" ELSE "submit"
    /\ UNCHANGED << n, max_workers, on_chunk_done, pool, closes, fresult, fexc,
                    qhead, yielded, results, idx, done_calls, cancel_i,
                    close_i, raising, outcome, returned >>
    /\ UNCHANGED other_than_exec

\* Line 145 raising: client_factory() fails.  The loop is outside the try
\* block, so the exception leaves the with block directly; neither the except
\* handler nor the finally block runs.
SubmitFactoryFails ==
    /\ pc = "submit"
    /\ clients < n
    /\ raising' = "FactoryError"
    /\ pc' = "shutdown"
    /\ UNCHANGED << n, max_workers, on_chunk_done, pool, clients, closes,
                    fstate, fresult, fexc, qhead, yielded, results, idx,
                    done_calls, cancel_i, close_i, outcome, returned >>
    /\ UNCHANGED other_than_exec

\* Futures as_completed can yield next: finished and not yet yielded.
Finished == {i \in Chunks : fstate[i] \in {"Completed", "Failed"}}

\* A plausible slip: the callback is reached with the result not yet stored.
StoreSkipped(res, i, rows) == res

\* Lines 154-155: results[idx] = result
Store(res, i, rows) == Append(res, [idx |-> i, rows |-> rows])

\* Lines 151-155: as_completed yields a finished future whose result() returns
\* normally; the result is stored under the lock.
CollectResult ==
    /\ pc = "collect"
    /\ \E i \in Finished \ yielded :
          /\ fstate[i] = "Completed"
          /\ yielded' = yielded \cup {i}
          /\ idx' = i
          /\ results' = Store(results, i, fresult[i])
    /\ pc' = IF on_chunk_done THEN "notify" ELSE "collect"
    /\ UNCHANGED << n, max_workers, on_chunk_done, pool, clients, closes,
                    fstate, fresult, fexc, qhead, done_calls, cancel_i,
                    close_i, raising, outcome, returned >>
    /\ UNCHANGED other_than_exec

\* Lines 156-157: on_chunk_done(idx)
Notify ==
    /\ pc = "notify"
    /\ done_calls' = Append(done_calls, idx)
    /\ pc' = "collect"
    /\ UNCHANGED << n, max_workers, on_chunk_done, pool, clients, closes,
                    fstate, fresult, fexc, qhead, yielded, results, idx,
                    cancel_i, close_i, raising, outcome, returned >>
    /\ UNCHANGED other_than_exec

\* A plausible slip: the except handler swallows the error (no re-raise).
Swallowed(e) == "none"

\* Line 161: the bare raise re-raises the exception the handler caught.
Reraised(e) == e

\* A plausible slip: the handler is inside the loop, which goes on collecting.
LoopResumed == "collect"

\* Line 158: the except clause encloses the whole as_completed loop, so the
\* handler of lines 159-161 is entered and the loop is never resumed.
HandlerEntered == "cancel"

\* Lines 153, 158: result() raises the chunk's PermanentQueryError and the
\* except handler is entered.
CollectPermanent ==
    /\ pc = "collect"
    /\ \E i \in Finished \ yielded :
          /\ fexc[i] = "PermanentQueryError"
          /\ yielded' = yielded \cup {i}
          /\ idx' = i
    /\ raising' = Reraised("PermanentQueryError")
    /\ cancel_i' = 0
    /\ pc' = HandlerEntered
    /\ UNCHANGED << n, max_workers, on_chunk_done, pool, clients, closes,
                    fstate, fresult, fexc, qhead, results, done_calls,
                    close_i, outcome, returned >>
    /\ UNCHANGED other_than_exec

\* Line 153: result() raises an exception that is not a PermanentQueryError;
\* no except clause matches and the finally block runs.
CollectOther ==
    /\ pc = "collect"
    /\ \E i \in Finished \ yielded :
          /\ fexc[i] = "OtherError"
          /\ yielded' = yielded \cup {i}
          /\ idx' = i
    /\ raising' = "OtherError"
    /\ pc' = "close"
    /\ UNCHANGED << n, max_workers, on_chunk_done, pool, clients, closes,
                    fstate, fresult, fexc, qhead, results, done_calls,
                    cancel_i, close_i, outcome, returned >>
    /\ UNCHANGED other_than_exec

\* Line 151: as_completed is exhausted, every future has been yielded.
CollectEnd ==
    /\ pc = "collect"
    /\ yielded = 0 .. (n - 1)
    /\ pc' = "close"
    /\ UNCHANGED << n, max_workers, on_chunk_done, pool, clients, closes,
                    fstate, fresult, fexc, qhead, yielded, results, idx,
                    done_calls, cancel_i, close_i, raising, outcome, returned >>
    /\ UNCHANGED other_than_exec

\* A plausible slip: cancel() has no effect.
CancelNothing(st) == st

\* A plausible slip: cancel() also stops a future that is running.
CancelAnything(st) == IF st \in {"Pending", "Running"} THEN "Cancelled" ELSE st

\* Future.cancel(): a future that is still pending becomes cancelled, a
\* running or finished one is left alone.
Cancel(st) == IF st = "Pending" THEN "Cancelled" ELSE st

\* Lines 159-160, one iteration of the loop over future_to_idx (insertion
\* order, which is chunk order).
CancelNext ==
    /\ pc = "cancel"
    /\ cancel_i < n
    /\ fstate' = [fstate EXCEPT ![cancel_i] = Cancel(fstate[cancel_i])]
    /\ cancel_i' = cancel_i + 1
    /\ pc' = IF cancel_i + 1 = n THEN "close" ELSE "cancel"
    /\ UNCHANGED << n, max_workers, on_chunk_done, pool, clients, closes,
                    fresult, fexc, qhead, yielded, results, idx, done_calls,
                    close_i, raising, outcome, returned >>
    /\ UNCHANGED other_than_exec

\* Lines 163-167, one iteration: c.close(), whatever it raises is swallowed.
\* After the last client the thread leaves the with block.
CloseNext ==
    /\ pc = "close"
    /\ close_i < clients
    /\ closes' = [closes EXCEPT ![close_i] = @ + 1]
    /\ close_i' = close_i + 1
    /\ pc' = IF close_i + 1 = clients THEN "shutdown" ELSE "close"
    /\ UNCHANGED << n, max_workers, on_chunk_done, pool, clients, fstate,
                    fresult, fexc, qhead, yielded, results, idx, done_calls,
                    cancel_i, raising, outcome, returned >>
    /\ UNCHANGED other_than_exec

\* Chunks a worker is executing query_fn for.
Running == {i \in Chunks : fstate[i] = "Running"}

\* Line 140, leaving the with block: ThreadPoolExecutor.__exit__ is
\* shutdown(wait=True), which returns once the workers have drained the queue
\* and finished what they were running.  Then either the exception in flight
\* reaches the caller or lines 169-172 build the returned list.
Leave ==
    /\ pc = "shutdown"
    /\ Running = {}
    /\ qhead = clients
    /\ pool' = "shutdown"
    /\ pc' = "done"
    /\ IF raising = "none"
       THEN /\ outcome' = "return"
            /\ returned' = Ordered(results)
       ELSE /\ outcome' = raising
            /\ returned' = << >>
    /\ UNCHANGED << n, max_workers, on_chunk_done, clients, closes, fstate,
                    fresult, fexc, qhead, yielded, results, idx, done_calls,
                    cancel_i, close_i, raising >>
    /\ UNCHANGED other_than_exec

(* ------------------------------------------------------------------ *)
(* The pool's worker threads                                            *)
(* ------------------------------------------------------------------ *)

\* A plausible slip: the pool starts a thread for every work item.
AlwaysFree(busy, limit) == TRUE

\* ThreadPoolExecutor(max_workers=max_workers): a thread is free to take work.
WorkerFree(busy, limit) == busy < limit

\* Line 147: a worker takes the next work item off the queue (FIFO) and starts
\* query_fn on it.
WorkerStart ==
    /\ pool = "open"
    /\ qhead < clients
    /\ fstate[qhead] = "Pending"
    /\ WorkerFree(Cardinality(Running), max_workers)
    /\ fstate' = [fstate EXCEPT ![qhead] = "Running"]
    /\ qhead' = qhead + 1
    /\ UNCHANGED << n, max_workers, on_chunk_done, pc, pool, clients, closes,
                    fresult, fexc, yielded, results, idx, done_calls, cancel_i,
                    close_i, raising, outcome, returned >>
    /\ UNCHANGED other_than_exec

\* A worker takes a work item whose future was cancelled and drops it.
WorkerSkipCancelled ==
    /\ pool = "open"
    /\ qhead < clients
    /\ fstate[qhead] = "Cancelled"
    /\ WorkerFree(Cardinality(Running), max_workers)
    /\ qhead' = qhead + 1
    /\ UNCHANGED << n, max_workers, on_chunk_done, pc, pool, clients, closes,
                    fstate, fresult, fexc, yielded, results, idx, done_calls,
                    cancel_i, close_i, raising, outcome, returned >>
    /\ UNCHANGED other_than_exec

\* query_fn(client, t0, t1) returns its rows; the future completes.
WorkerReturn ==
    /\ \E i \in Running, len \in 0 .. MaxRows :
          /\ fstate' = [fstate EXCEPT ![i] = "Completed"]
          /\ fresult' = [fresult EXCEPT ![i] = Rows(i, len)]
    /\ UNCHANGED << n, max_workers, on_chunk_done, pc, pool, clients, closes,
                    fexc, qhead, yielded, results, idx, done_calls, cancel_i,
                    close_i, raising, outcome, returned >>
    /\ UNCHANGED other_than_exec

\* query_fn(client, t0, t1) raises; the exception is stored in the future.
WorkerRaise ==
    /\ \E i \in Running, e \in {"PermanentQueryError", "OtherError"} :
          /\ fstate' = [fstate EXCEPT ![i] = "Failed"]
          /\ fexc' = [fexc EXCEPT ![i] = e]
    /\ UNCHANGED << n, max_workers, on_chunk_done, pc, pool, clients, closes,
                    fresult, qhead, yielded, results, idx, done_calls,
                    cancel_i, close_i, raising, outcome, returned >>
    /\ UNCHANGED other_than_exec

(* ------------------------------------------------------------------ *)
(* Error classification                                                 *)
(* ------------------------------------------------------------------ *)

\* Strings are sequences of one-character strings, so that lower-casing and
\* substring search are computed, not assumed.
PERMANENT_ERROR_PATTERNS ==
    { << "t", "a", "b", "l", "e", " ", "n", "o", "t", " ", "f", "o", "u", "n", "d" >>,
      << "n", "o", "t", " ", "f", "o", "u", "n", "d" >>,
      << "u", "n", "a", "u", "t", "h", "o", "r", "i", "z", "e", "d" >>,
      << "u", "n", "a", "u", "t", "h", "e", "n", "t", "i", "c", "a", "t", "e", "d" >>,
      << "p", "e", "r", "m", "i", "s", "s", "i", "o", "n", " ", "d", "e", "n", "i", "e", "d" >>,
      << "i", "n", "v", "a", "l", "i", "d", " ", "t", "o", "k", "e", "n" >>,
      << "d", "a", "t", "a", "b", "a", "s", "e", " ", "n", "o", "t", " ", "f", "o", "u", "n", "d" >>,
      << "b", "u", "c", "k", "e", "t", " ", "n", "o", "t", " ", "f", "o", "u", "n", "d" >>,
      << "s", "y", "n", "t", "a", "x", " ", "e", "r", "r", "o", "r" >> }

UpperCase == << "A", "B", "C", "D", "E", "F", "G", "H", "I", "J", "K", "L", "M",
                "N", "O", "P", "Q", "R", "S", "T", "U", "V", "W", "X", "Y", "Z" >>
LowerCase == << "a", "b", "c", "d", "e", "f", "g", "h", "i", "j", "k", "l", "m",
                "n", "o", "p", "q", "r", "s", "t", "u", "v", "w", "x", "y", "z" >>

\* str.lower(), one character
LowerChar(c) ==
    IF \E k \in 1 .. 26 : UpperCase[k] = c
    THEN LowerCase[CHOOSE k \in 1 .. 26 : UpperCase[k] = c]
    ELSE c

\* A plausible slip: the message compared as written, not lower-cased.
AsWritten(msg) == msg

\* str.lower()
Lower(msg) == [k \in 1 .. Len(msg) |-> LowerChar(msg[k])]

\* pattern in msg
Contains(msg, pattern) ==
    \E s \in 0 .. (Len(msg) - Len(pattern)) :
        \A j \in 1 .. Len(pattern) : msg[s + j] = pattern[j]

\* is_permanent_error(exc), on str(exc)
is_permanent_error(msg) ==
    \E pattern \in PERMANENT_ERROR_PATTERNS : Contains(Lower(msg), pattern)

\* Messages of the failures primary_fn and fallback_fn raise in the model.
MsgTimeout == << "t", "i", "m", "e", "o", "u", "t" >>
MsgUnauthorized == << "U", "n", "a", "u", "t", "h", "o", "r", "i", "z", "e", "d" >>

MsgQuota == << "q", "u", "o", "t", "a" >>

\* Exceptions primary_fn and fallback_fn may raise: one with a recoverable
\* and one with a permanent message.
Failures ==
    { [type |-> "Exception", msg |-> MsgTimeout],
      [type |-> "Exception", msg |-> MsgUnauthorized] }

\* Exceptions of query functions that raise PermanentQueryError themselves
\* (line 45, a subclass of Exception): one whose message holds no
\* permanent-failure signature, and a plain permanent failure.
OwnFailures ==
    { [type |-> "PermanentQueryError", msg |-> MsgQuota],
      [type |-> "Exception", msg |-> MsgUnauthorized] }

NoExc == [type |-> "none", msg |-> << >>]

(* ------------------------------------------------------------------ *)
(* is_permanent_error on a family of messages                          *)
(* ------------------------------------------------------------------ *)

\* Messages that hold no permanent-failure signature: the empty message, the
\* recoverable messages of the tests, and near misses of the signatures.
RecoverableCores ==
    { << >>,
      << "t", "i", "m", "e", "o", "u", "t" >>,
      << "r", "e", "s", "o", "u", "r", "c", "e", " ", "l", "i", "m", "i", "t", " ", "e", "x", "c", "e", "e", "d", "e", "d" >>,
      << "q", "u", "e", "r", "y", " ", "t", "i", "m", "e", "o", "u", "t", " ", "e", "x", "c", "e", "e", "d", "e", "d" >>,
      << "s", "o", "m", "e", " ", "t", "r", "a", "n", "s", "i", "e", "n", "t", " ", "f", "a", "i", "l", "u", "r", "e" >>,
      << "n", "o", "t", " ", "f", "o", "u", "n" >>,
      << "u", "n", "a", "u", "t", "h", "o", "r", "i", "z", "e" >>,
      << "s", "y", "n", "t", "a", "x", "e", "r", "r", "o", "r" >>,
      << "i", "n", "v", "a", "l", "i", "d", " ", " ", "t", "o", "k", "e", "n" >>,
      << "p", "e", "r", "m", "i", "s", "s", "i", "o", "n", " ", "g", "r", "a", "n", "t", "e", "d" >>,
      << "t", "o", "k", "e", "n", " ", "i", "n", "v", "a", "l", "i", "d" >> }

\* Text placed before and after a core: no letters, so no signature can
\* arise from it.
PadText == << ":", " ", "4", "2" >>

\* str.upper(), one character
UpperChar(c) ==
    IF \E k \in 1 .. 26 : LowerCase[k] = c
    THEN UpperCase[CHOOSE k \in 1 .. 26 : LowerCase[k] = c]
    ELSE c

\* The spellings of a core: as written, upper-cased, first letter capital.
Spelled(core, how) ==
    CASE how = "lower" -> core
      [] how = "upper" -> [k \in 1 .. Len(core) |-> UpperChar(core[k])]
      [] how = "capital" ->
            [k \in 1 .. Len(core) |-> IF k = 1 THEN UpperChar(core[k]) ELSE core[k]]

\* A message: a core in one spelling, inside i leading and j trailing
\* characters.
Message(core, how, i, j) ==
    SubSeq(PadText, 1, i) \o Spelled(core, how) \o SubSeq(PadText, 1, j)

CLInit ==
    /\ \E core \in PERMANENT_ERROR_PATTERNS \cup RecoverableCores,
          how \in {"lower", "upper", "capital"},
          i \in 0 .. MaxPad, j \in 0 .. MaxPad :
          /\ cl_msg = Message(core, how, i, j)
          /\ cl_expect = (core \in PERMANENT_ERROR_PATTERNS)
    /\ cl_calls = 0
    /\ cl_result = FALSE

CLIdle ==
    /\ cl_msg = << >>
    /\ cl_expect = FALSE
    /\ cl_calls = 0
    /\ cl_result = FALSE

\* One call is_permanent_error(exc), with str(exc) = cl_msg.
Classify ==
    /\ cl_calls < MaxCalls
    /\ cl_calls' = cl_calls + 1
    /\ cl_result' = is_permanent_error(cl_msg)
    /\ UNCHANGED << cl_msg, cl_expect >>
    /\ UNCHANGED other_than_cl

(* ------------------------------------------------------------------ *)
(* adaptive_query                                                       *)
(* ------------------------------------------------------------------ *)

\* min_span = None
NoSpan == -1

\* One active call adaptive_query(client, t0, t1, ..., _depth).  at = "call":
\* the body has not run yet; "left": inside the recursive call of line 102;
\* "right": inside the recursive call of line 106, left holding its result.
Frame(t0, t1, depth) ==
    [t0 |-> t0, t1 |-> t1, depth |-> depth, at |-> "call", mid |-> t0,
     left |-> << >>]

\* Rows primary_fn / fallback_fn return for [t0, t1): 0..MaxRows rows, tagged
\* with the function and the range they came from.
FnRows(fn, t0, t1, len) == [j \in 1 .. len |-> << fn, t0, t1, j >>]

\* One entry of the call log.
Call(fn, f, out, rows, exc) ==
    [fn |-> fn, t0 |-> f.t0, t1 |-> f.t1, depth |-> f.depth, out |-> out,
     rows |-> rows, exc |-> exc]

AQInit ==
    /\ aq_t0 \in 0 .. 1
    /\ aq_t1 \in aq_t0 .. (aq_t0 + MaxSpan)
    /\ aq_fallback \in BOOLEAN
    /\ aq_min_span \in {NoSpan} \cup (0 .. MaxMinSpan)
    /\ aq_max_depth \in -1 .. MaxDepth
    /\ aq_failures = Failures
    /\ aq_stack = << Frame(aq_t0, aq_t1, 0) >>
    /\ aq_status = "run"
    /\ aq_val = << >>
    /\ aq_exc = NoExc
    /\ aq_log = << >>
    /\ aq_leaves = << >>

\* A call whose primary_fn and fallback_fn raise PermanentQueryError
\* themselves.
AQInitOwn ==
    /\ aq_t0 \in 0 .. 1
    /\ aq_t1 \in aq_t0 .. (aq_t0 + MaxSpan)
    /\ aq_fallback \in BOOLEAN
    /\ aq_min_span \in {NoSpan} \cup (0 .. MaxMinSpan)
    /\ aq_max_depth \in -1 .. MaxDepth
    /\ aq_failures = OwnFailures
    /\ aq_stack = << Frame(aq_t0, aq_t1, 0) >>
    /\ aq_status = "run"
    /\ aq_val = << >>
    /\ aq_exc = NoExc
    /\ aq_log = << >>
    /\ aq_leaves = << >>

AQIdle ==
    /\ aq_t0 = 0
    /\ aq_t1 = 0
    /\ aq_fallback = FALSE
    /\ aq_min_span = NoSpan
    /\ aq_max_depth = 0
    /\ aq_failures = {}
    /\ aq_stack = << >>
    /\ aq_status = "idle"
    /\ aq_val = << >>
    /\ aq_exc = NoExc
    /\ aq_log = << >>
    /\ aq_leaves = << >>

ExecIdle ==
    /\ n = 0
    /\ max_workers = 1
    /\ on_chunk_done = FALSE
    /\ pc = "idle"
    /\ pool = "none"
    /\ clients = 0
    /\ closes = [i \in Chunks |-> 0]
    /\ fstate = [i \in Chunks |-> "NotSubmitted"]
    /\ fresult = [i \in Chunks |-> << >>]
    /\ fexc = [i \in Chunks |-> "none"]
    /\ qhead = 0
    /\ yielded = {}
    /\ results = << >>
    /\ idx = -1
    /\ done_calls = << >>
    /\ cancel_i = 0
    /\ close_i = 0
    /\ raising = "none"
    /\ outcome = "none"
    /\ returned = << >>

\* The innermost active call.
Top == aq_stack[Len(aq_stack)]

\* The calls below the innermost one.
Callers == SubSeq(aq_stack, 1, Len(aq_stack) - 1)

\* timedelta / 2: the quotient in whole microseconds, a tie rounded to even.
HalfEven(d) ==
    LET q == d \div 2
    IN  IF d % 2 = 0 THEN q
        ELSE IF q % 2 = 0 THEN q ELSE q + 1

\* Line 96: mid = t0 + (t1 - t0) / 2
Mid(t0, t1) == t0 + HalfEven(t1 - t0)

\* Line 80: min_span and (t1 - t0) <= min_span.  A timedelta is falsy exactly
\* when it is timedelta(0).
SpanFloor(min_span, t0, t1) ==
    /\ min_span # NoSpan
    /\ min_span # 0
    /\ (t1 - t0) <= min_span

\* A plausible slip: no depth floor at all.
NoDepthFloor(depth, max_depth) == FALSE

\* A plausible slip: the floor one level too deep.
OneLevelDeeper(depth, max_depth) == depth > max_depth + 1

\* Line 85: _depth > max_depth
DepthFloor(depth, max_depth) == depth > max_depth

\* A plausible slip: the midpoint is never tested.
NeverDegenerate(t0, mid, t1) == FALSE

\* Line 97: mid <= t0 or mid >= t1
Degenerate(t0, mid, t1) == mid <= t0 \/ mid >= t1

\* A plausible slip: the right half starts where the whole range starts.
FromStart(t0, mid) == t0

\* Line 107: the right half is [mid, t1).
FromMid(t0, mid) == mid

\* A plausible slip: the halves concatenated the wrong way round.
RightThenLeft(left, right) == right \o left

\* Line 110: left + right
Concat(left, right) == left \o right

RECURSIVE Unwind(_, _)
\* The innermost call returns v to the calls in st: a caller at line 102
\* goes on to its recursive call of line 106; a caller at line 106 returns
\* left + right to its own caller; with no caller left, v is the result.
Unwind(st, v) ==
    IF st = << >>
    THEN [stack |-> << >>, val |-> v, status |-> "returned"]
    ELSE LET p == st[Len(st)]
             rest == SubSeq(st, 1, Len(st) - 1)
         IN  IF p.at = "left"
             THEN [stack |-> rest \o << [p EXCEPT !.at = "right", !.left = v],
                                        Frame(FromMid(p.t0, p.mid), p.t1,
                                              p.depth + 1) >>,
                   val |-> << >>,
                   status |-> "run"]
             ELSE Unwind(rest, Concat(p.left, v))

\* The innermost call returns v.
Return(v) ==
    LET u == Unwind(Callers, v)
    IN  /\ aq_stack' = u.stack
        /\ aq_val' = u.val
        /\ aq_status' = u.status
        /\ aq_exc' = aq_exc

\* An exception leaves the innermost call.  None of the callers has a handler
\* around its recursive calls (lines 102-109 are in the except block, not in
\* the try), so it reaches the caller of the top-level call.
Raise(e) ==
    /\ aq_stack' = << >>
    /\ aq_val' = << >>
    /\ aq_status' = "raised"
    /\ aq_exc' = e

\* Lines 81-83, 86-88, 98-100: fallback_fn(client, t0, t1) if supplied, which
\* returns rows or raises; else [].  log is the call log so far.  A call that
\* returns here has not recursed: its range is a leaf.
FallbackOrEmpty(log) ==
    IF aq_fallback
    THEN \/ \E len \in 0 .. MaxRows :
               LET rows == FnRows("fallback", Top.t0, Top.t1, len)
               IN  /\ aq_log' = Append(log, Call("fallback", Top, "ok", rows, NoExc))
                   /\ aq_leaves' = Append(aq_leaves, << Top.t0, Top.t1 >>)
                   /\ Return(rows)
         \/ \E e \in aq_failures :
               /\ aq_log' = Append(log, Call("fallback", Top, "raise", << >>, e))
               /\ aq_leaves' = aq_leaves
               /\ Raise(e)
    ELSE /\ aq_log' = log
         /\ aq_leaves' = Append(aq_leaves, << Top.t0, Top.t1 >>)
         /\ Return(<< >>)

\* Lines 80-83: the span floor.
AQSpanFloor ==
    /\ aq_status = "run"
    /\ SpanFloor(aq_min_span, Top.t0, Top.t1)
    /\ FallbackOrEmpty(aq_log)
    /\ UNCHANGED << aq_t0, aq_t1, aq_fallback, aq_min_span, aq_max_depth,
                    aq_failures >>
    /\ UNCHANGED other_than_aq

\* Lines 85-88: the depth floor.
AQDepthFloor ==
    /\ aq_status = "run"
    /\ ~SpanFloor(aq_min_span, Top.t0, Top.t1)
    /\ DepthFloor(Top.depth, aq_max_depth)
    /\ FallbackOrEmpty(aq_log)
    /\ UNCHANGED << aq_t0, aq_t1, aq_fallback, aq_min_span, aq_max_depth,
                    aq_failures >>
    /\ UNCHANGED other_than_aq

\* Neither floor applies: line 90 is reached.
Attempt ==
    /\ aq_status = "run"
    /\ ~SpanFloor(aq_min_span, Top.t0, Top.t1)
    /\ ~DepthFloor(Top.depth, aq_max_depth)

\* A plausible slip: something other than primary_fn's list is returned.
Dropped(rows) == << >>

\* Line 91: return primary_fn(client, t0, t1)
Passed(rows) == rows

\* Lines 90-91: primary_fn returns.
AQPrimaryReturns ==
    /\ Attempt
    /\ \E len \in 0 .. MaxRows :
          LET rows == FnRows("primary", Top.t0, Top.t1, len)
          IN  /\ aq_log' = Append(aq_log, Call("primary", Top, "ok", rows, NoExc))
              /\ aq_leaves' = Append(aq_leaves, << Top.t0, Top.t1 >>)
              /\ Return(Passed(rows))
    /\ UNCHANGED << aq_t0, aq_t1, aq_fallback, aq_min_span, aq_max_depth,
                    aq_failures >>
    /\ UNCHANGED other_than_aq

\* A plausible slip: every failure is treated as recoverable.
NeverAborts(e) == FALSE

\* Line 93: if is_permanent_error(exc)
Aborts(e) == is_permanent_error(e.msg)

\* Lines 92-94: primary_fn raises a permanent failure, which is re-raised as
\* PermanentQueryError(str(exc)).
AQPrimaryPermanent ==
    /\ Attempt
    /\ \E e \in aq_failures :
          /\ Aborts(e)
          /\ aq_log' = Append(aq_log, Call("primary", Top, "raise", << >>, e))
          /\ Raise([type |-> "PermanentQueryError", msg |-> e.msg])
    /\ UNCHANGED << aq_t0, aq_t1, aq_fallback, aq_min_span, aq_max_depth,
                    aq_failures, aq_leaves >>
    /\ UNCHANGED other_than_aq

\* Lines 96-105: primary_fn raises a recoverable failure and the midpoint
\* lies strictly inside the range: the left half is called.
AQSplit ==
    /\ Attempt
    /\ \E e \in aq_failures :
          /\ ~Aborts(e)
          /\ aq_log' = Append(aq_log, Call("primary", Top, "raise", << >>, e))
    /\ LET mid == Mid(Top.t0, Top.t1)
       IN  /\ ~Degenerate(Top.t0, mid, Top.t1)
           /\ aq_stack' = Callers \o << [Top EXCEPT !.at = "left", !.mid = mid],
                                        Frame(Top.t0, mid, Top.depth + 1) >>
    /\ UNCHANGED << aq_t0, aq_t1, aq_fallback, aq_min_span, aq_max_depth,
                    aq_failures, aq_status, aq_val, aq_exc, aq_leaves >>
    /\ UNCHANGED other_than_aq

\* Lines 96-100: primary_fn raises a recoverable failure and the range cannot
\* be halved.
AQDegenerate ==
    /\ Attempt
    /\ Degenerate(Top.t0, Mid(Top.t0, Top.t1), Top.t1)
    /\ \E e \in aq_failures :
          /\ ~Aborts(e)
          /\ FallbackOrEmpty(Append(aq_log, Call("primary", Top, "raise", << >>, e)))
    /\ UNCHANGED << aq_t0, aq_t1, aq_fallback, aq_min_span, aq_max_depth,
                    aq_failures >>
    /\ UNCHANGED other_than_aq

(* ------------------------------------------------------------------ *)
(* _compress_bins (src/src/slicks/scanner.py)                           *)
(* ------------------------------------------------------------------ *)

\* Bucket starts of the samples: the first few buckets and one far away.
BucketStarts == (0 .. MaxStart) \cup {10}

\* Row counts of the samples.
Counts == {1, 2}

\* Values of step.
Steps == {1, 2}

\* The (bucket_start, n) rows.
Samples == [bucket_start : BucketStarts, n : Counts]

RECURSIVE InsertSorted(_, _)
\* pair placed after every element of the sorted list whose key is not
\* greater: sorted() is stable.
InsertSorted(sorted, pair) ==
    IF sorted = << >> THEN << pair >>
    ELSE IF sorted[Len(sorted)].bucket_start <= pair.bucket_start
         THEN Append(sorted, pair)
         ELSE Append(InsertSorted(SubSeq(sorted, 1, Len(sorted) - 1), pair),
                     sorted[Len(sorted)])

RECURSIVE StableSort(_)
StableSort(pairs) ==
    IF pairs = << >> THEN << >>
    ELSE InsertSorted(StableSort(SubSeq(pairs, 1, Len(pairs) - 1)),
                      pairs[Len(pairs)])

\* A plausible slip: the pairs walked in the order given.
Unsorted(pairs) == pairs

\* Line 533: sorted(pairs, key=lambda row: row[0])
SortedPairs(pairs) == StableSort(pairs)

\* A plausible slip: a bucket at or before the open window's end extends it.
NotBeyond(bucket_start, cur_end) == bucket_start <= cur_end

\* Line 545: bucket_start == cur_end
Adjacent(bucket_start, cur_end) == bucket_start = cur_end

\* Lines 540-543 and 551-554: a window opened at one bucket.
Opened(bucket_start, count, step) ==
    [cur_start |-> bucket_start, cur_end |-> bucket_start + step,
     bins_in |-> 1, rows_in |-> count]

\* A plausible slip: the bucket not counted.
GrownWithoutBin(cur, count, step) ==
    [cur EXCEPT !.cur_end = @ + step, !.rows_in = @ + count]

\* A plausible slip: the bucket's rows not added.
GrownWithoutRows(cur, count, step) ==
    [cur EXCEPT !.cur_end = @ + step, !.bins_in = @ + 1]

\* Lines 546-548: the open window extended by one bucket.
Grown(cur, count, step) ==
    [cur EXCEPT !.cur_end = @ + step, !.bins_in = @ + 1, !.rows_in = @ + count]

\* Lines 550 and 557: the tuple appended to windows.
Window(cur) == << cur.cur_start, cur.cur_end, cur.bins_in, cur.rows_in >>

\* cur_start is None
NoWindow == [cur_start |-> -1, cur_end |-> -1, bins_in |-> 0, rows_in |-> 0]

RECURSIVE Walk(_, _, _, _, _)
\* Lines 538-558: the loop from sorted_pairs[i] on, with the open window cur
\* and the windows closed so far, then the final append.
Walk(sorted_pairs, i, cur, windows, step) ==
    IF i > Len(sorted_pairs)
    THEN IF cur = NoWindow THEN windows ELSE Append(windows, Window(cur))
    ELSE LET bucket_start == sorted_pairs[i].bucket_start
             count == sorted_pairs[i].n
         IN  IF cur = NoWindow
             THEN Walk(sorted_pairs, i + 1, Opened(bucket_start, count, step),
                       windows, step)
             ELSE IF Adjacent(bucket_start, cur.cur_end)
                  THEN Walk(sorted_pairs, i + 1, Grown(cur, count, step),
                            windows, step)
                  ELSE Walk(sorted_pairs, i + 1, Opened(bucket_start, count, step),
                            Append(windows, Window(cur)), step)

\* _compress_bins(pairs, step)
compress_bins(pairs, step) == Walk(SortedPairs(pairs), 1, NoWindow, << >>, step)

CBInit ==
    /\ cb_pairs \in UNION {[1 .. k -> Samples] : k \in 0 .. MaxPairs}
    /\ cb_step \in Steps
    /\ cb_pc = "ready"
    /\ cb_windows = << >>

CBIdle ==
    /\ cb_pairs = << >>
    /\ cb_step = 1
    /\ cb_pc = "idle"
    /\ cb_windows = << >>

\* One call _compress_bins(cb_pairs, cb_step).
CompressBins ==
    /\ cb_pc = "ready"
    /\ cb_windows' = compress_bins(cb_pairs, cb_step)
    /\ cb_pc' = "done"
    /\ UNCHANGED << cb_pairs, cb_step >>
    /\ UNCHANGED other_than_cb

(* ------------------------------------------------------------------ *)
(* discover_sensors (src/src/slicks/discovery.py)                       *)
(* ------------------------------------------------------------------ *)
\* Times are in seconds.  Every span the model halves is a multiple of 2^6
\* seconds or the 12-second tail, so no halving rounds.

\* timedelta(days=1)
Day == 86400

\* min_span=timedelta(seconds=10)
DSMinSpan == 10

\* max_depth=5
DSMaxDepth == 5

\* max_workers=4
DSMaxWorkers == 4

\* The NULL signalName.
Null == 0

\* Values of chunk_size_days.
ChunkDays == {-1, 0, 1, 7}

\* Values of start_time.
Starts == {0, Day}

\* Values of end_time: before, at and after the values of start_time.
Ends == {0, 5, 12, Day, Day + 5, Day + 12, 2 * Day + 12, 10 * Day}

\* The server's resource limit: every query fails, queries over more than
\* half a day fail, no query fails.
Limits == {0, Day \div 2, 10 * Day}

\* No instant is refused, or one in the first day, or one just after it.
NoInstant == -1
BadInstants == {NoInstant, 3, Day + 3}

\* Contents of the table: nothing; or sensors 1 and 2 in the first seconds,
\* sensor 2 again, sensor 3 and a NULL name just after the first day.
Datasets ==
    { {},
      { [t |-> 2, name |-> 2], [t |-> 2, name |-> 1],
        [t |-> Day + 2, name |-> 2], [t |-> Day + 2, name |-> Null],
        [t |-> Day + 2, name |-> 3] } }

\* ceil(a / b) for b > 0
CeilDiv(a, b) == (a + b - 1) \div b

\* len(chunks) for a call with these arguments.
ChunkCount(start, end, days) ==
    IF start < end /\ days >= 1 THEN CeilDiv(end - start, days * Day) ELSE 0

DSInit ==
    /\ ds_start \in Starts
    /\ ds_end \in Ends
    /\ ds_chunk_days \in ChunkDays
    /\ ChunkCount(ds_start, ds_end, ds_chunk_days) <= MaxChunks
    /\ ds_client_ok \in BOOLEAN
    /\ ds_limit \in Limits
    /\ ds_bad \in BadInstants
    /\ ds_data \in Datasets
    /\ ds_pc = "build"
    /\ ds_cur = ds_start
    /\ ds_chunks = << >>
    /\ ds_queries = [i \in Chunks |-> 0]
    /\ ds_status = "none"
    /\ ds_exc = "none"
    /\ ds_result = << >>

DSIdle ==
    /\ ds_start = 0
    /\ ds_end = 0
    /\ ds_chunk_days = 0
    /\ ds_client_ok = TRUE
    /\ ds_limit = 0
    /\ ds_bad = NoInstant
    /\ ds_data = {}
    /\ ds_pc = "idle"
    /\ ds_cur = 0
    /\ ds_chunks = << >>
    /\ ds_queries = [i \in Chunks |-> 0]
    /\ ds_status = "none"
    /\ ds_exc = "none"
    /\ ds_result = << >>

\* A plausible slip: one chunk for whatever is left of the range.
RestOfRange(cur, days, end) == end

\* A plausible slip: the chunk's end not clamped to end_time.
Unclamped(cur, days, end) == cur + days * Day

\* Line 89: nxt = min(cur + timedelta(days=chunk_size_days), end_time)
Nxt(cur, days, end) ==
    IF cur + days * Day < end THEN cur + days * Day ELSE end

\* Lines 88-93, one iteration of the loop that appends a chunk.
DSBuildChunk ==
    /\ ds_pc = "build"
    /\ ds_cur < ds_end
    /\ LET nxt == Nxt(ds_cur, ds_chunk_days, ds_end)
       IN  /\ nxt > ds_cur
           /\ ds_chunks' = Append(ds_chunks, << ds_cur, nxt >>)
           /\ ds_cur' = nxt
    /\ UNCHANGED << ds_start, ds_end, ds_chunk_days, ds_client_ok, ds_limit,
                    ds_bad, ds_data, ds_pc, ds_queries, ds_status, ds_exc,
                    ds_result >>
    /\ UNCHANGED exec_vars
    /\ UNCHANGED other_than_ds

\* Lines 88-91 and 107-114: the loop ends (cur >= end_time, or the break of
\* line 91) and run_chunks_parallel is called with the chunks built,
\* max_workers=4 and the progress callback.
DSRunChunks ==
    /\ ds_pc = "build"
    /\ \/ ds_cur >= ds_end
       \/ Nxt(ds_cur, ds_chunk_days, ds_end) <= ds_cur
    /\ ds_pc' = "run"
    /\ pc = "idle"
    /\ pc' = "start"
    /\ n' = Len(ds_chunks)
    /\ max_workers' = DSMaxWorkers
    /\ on_chunk_done' = TRUE
    /\ UNCHANGED << pool, clients, closes, fstate, fresult, fexc, qhead, yielded,
                    results, idx, done_calls, cancel_i, close_i, raising,
                    outcome, returned >>
    /\ UNCHANGED << ds_start, ds_end, ds_chunk_days, ds_client_ok, ds_limit,
                    ds_bad, ds_data, ds_cur, ds_chunks, ds_queries, ds_status,
                    ds_exc, ds_result >>
    /\ UNCHANGED other_than_ds

\* Lines 45-50 inside line 145 of run_chunks_parallel: _make_client builds a
\* client from the configuration, which does not change during the call: it
\* succeeds for every chunk or fails for the first.
DSSubmit == ds_client_ok /\ Submit

DSSubmitFails == ~ds_client_ok /\ SubmitFactoryFails

\* client.query(query=sql) on [t0, t1): the exception it raises, or NoExc.
QueryFailure(t0, t1) ==
    IF ds_bad # NoInstant /\ t0 <= ds_bad /\ ds_bad < t1
    THEN [type |-> "Exception", msg |-> MsgUnauthorized]
    ELSE IF (t1 - t0) > ds_limit
         THEN [type |-> "Exception", msg |-> MsgTimeout]
         ELSE NoExc

RECURSIVE Descending(_)
\* The values of a set, largest first.
Descending(S) ==
    IF S = {} THEN << >>
    ELSE LET m == CHOOSE x \in S : \A y \in S : y <= x
         IN  << m >> \o Descending(S \ {m})

\* The signalName column of the table SELECT DISTINCT returns for [t0, t1).
SignalNames(t0, t1) ==
    Descending({d.name : d \in {x \in ds_data : t0 <= x.t /\ x.t < t1}})

\* Lines 66-70: [] for an empty table, else the names that are not None.
query_distinct(t0, t1) ==
    LET col == SignalNames(t0, t1)
    IN  IF Len(col) = 0 THEN << >>
        ELSE SelectSeq(col, LAMBDA v : v # Null)

\* What one adaptive_query call hands back: the list returned, the number of
\* client.query calls made, and whether it raised PermanentQueryError.
Answer(rows, queries, permanent) ==
    [rows |-> rows, queries |-> queries, permanent |-> permanent]

RECURSIVE process_chunk(_, _, _)
\* Lines 72-83: adaptive_query(client, t0, t1, primary_fn=_query_distinct,
\* fallback_fn=None, min_span=10 s, max_depth=5), as query_utils.py lines
\* 80-110 run it against this server.
process_chunk(t0, t1, depth) ==
    IF SpanFloor(DSMinSpan, t0, t1) \/ DepthFloor(depth, DSMaxDepth)
    THEN Answer(<< >>, 0, FALSE)
    ELSE LET e == QueryFailure(t0, t1)
             mid == Mid(t0, t1)
         IN  IF e = NoExc THEN Answer(Passed(query_distinct(t0, t1)), 1, FALSE)
             ELSE IF Aborts(e) THEN Answer(<< >>, 1, TRUE)
             ELSE IF Degenerate(t0, mid, t1) THEN Answer(<< >>, 1, FALSE)
             ELSE LET left == process_chunk(t0, mid, depth + 1)
                  IN  IF left.permanent
                      THEN Answer(<< >>, 1 + left.queries, TRUE)
                      ELSE LET right == process_chunk(mid, t1, depth + 1)
                           IN  Answer(IF right.permanent THEN << >>
                                      ELSE Concat(left.rows, right.rows),
                                      1 + left.queries + right.queries,
                                      right.permanent)

\* What _process_chunk does for chunk i.
ChunkAnswer(i) == process_chunk(ds_chunks[i + 1][1], ds_chunks[i + 1][2], 0)

\* _process_chunk returns for a running chunk; the future completes.
DSWorkerReturn ==
    /\ \E i \in Running :
          LET a == ChunkAnswer(i)
          IN  /\ ~a.permanent
              /\ fstate' = [fstate EXCEPT ![i] = "Completed"]
              /\ fresult' = [fresult EXCEPT ![i] = a.rows]
              /\ ds_queries' = [ds_queries EXCEPT ![i] = a.queries]
    /\ UNCHANGED << n, max_workers, on_chunk_done, pc, pool, clients, closes,
                    fexc, qhead, yielded, results, idx, done_calls, cancel_i,
                    close_i, raising, outcome, returned >>
    /\ UNCHANGED << ds_start, ds_end, ds_chunk_days, ds_client_ok, ds_limit,
                    ds_bad, ds_data, ds_pc, ds_cur, ds_chunks, ds_status, ds_exc,
                    ds_result >>
    /\ UNCHANGED other_than_ds

\* _process_chunk raises PermanentQueryError for a running chunk; the
\* exception is stored in the future.
DSWorkerRaise ==
    /\ \E i \in Running :
          LET a == ChunkAnswer(i)
          IN  /\ a.permanent
              /\ fstate' = [fstate EXCEPT ![i] = "Failed"]
              /\ fexc' = [fexc EXCEPT ![i] = "PermanentQueryError"]
              /\ ds_queries' = [ds_queries EXCEPT ![i] = a.queries]
    /\ UNCHANGED << n, max_workers, on_chunk_done, pc, pool, clients, closes,
                    fresult, qhead, yielded, results, idx, done_calls,
                    cancel_i, close_i, raising, outcome, returned >>
    /\ UNCHANGED << ds_start, ds_end, ds_chunk_days, ds_client_ok, ds_limit,
                    ds_bad, ds_data, ds_pc, ds_cur, ds_chunks, ds_status, ds_exc,
                    ds_result >>
    /\ UNCHANGED other_than_ds

\* A plausible slip: the PermanentQueryError let through as it is.
Unwrapped(e) == e

\* Lines 115-116: except PermanentQueryError as e: raise RuntimeError(...)
Wrapped(e) == "RuntimeError"

\* A plausible slip: the names returned as collected.
AsCollected(names) == names

\* Line 120: sorted(set(all_names))
SortedUnique(names) == SortedSeq({names[k] : k \in 1 .. Len(names)})

\* Lines 107-121: run_chunks_parallel has returned or raised.
DSFinish ==
    /\ ds_pc = "run"
    /\ pc = "done"
    /\ ds_pc' = "done"
    /\ IF outcome = "return"
       THEN /\ ds_status' = "returned"
            /\ ds_result' = SortedUnique(returned)
            /\ ds_exc' = ds_exc
       ELSE /\ ds_status' = "raised"
            /\ ds_exc' = IF outcome = "PermanentQueryError"
                         THEN Wrapped(outcome) ELSE outcome
            /\ ds_result' = ds_result
    /\ UNCHANGED << ds_start, ds_end, ds_chunk_days, ds_client_ok, ds_limit,
                    ds_bad, ds_data, ds_cur, ds_chunks, ds_queries >>
    /\ UNCHANGED exec_vars
    /\ UNCHANGED other_than_ds

(* ------------------------------------------------------------------ *)
(* connect_influxdb3 (src/src/slicks/config.py)                         *)
(* ------------------------------------------------------------------ *)

\* An argument left at its default None, or passed as the empty string: both
\* are falsy in the tests of lines 51-64.
Unset == ""

\* Arguments a caller passes for url, token, org and schema.
UrlArgs == {Unset, "https://host"}
TokenArgs == {Unset, "token"}
OrgArgs == {Unset, "org"}
SchemaArgs == {Unset, "public"}

\* Arguments a caller passes for db and table.
DbArgs == {Unset, "A", "B"}
TableArgs == {Unset, "T"}

\* Lines 10-18 with INFLUX_DB not set in the environment: the defaults, and
\* INFLUX_TABLE taken from the environment when it is set there and from
\* INFLUX_DB otherwise.
CFInit ==
    /\ INFLUX_URL = "http://localhost:8086"
    /\ INFLUX_TOKEN = "my-token"
    /\ INFLUX_ORG = "Docs"
    /\ INFLUX_DB = "WFR25"
    /\ INFLUX_SCHEMA = "iox"
    /\ INFLUX_TABLE \in {INFLUX_DB, "T"}
    /\ cf_call = [db |-> Unset, table |-> Unset]

CFIdle ==
    /\ INFLUX_URL = Unset
    /\ INFLUX_TOKEN = Unset
    /\ INFLUX_ORG = Unset
    /\ INFLUX_DB = Unset
    /\ INFLUX_SCHEMA = Unset
    /\ INFLUX_TABLE = Unset
    /\ cf_call = [db |-> Unset, table |-> Unset]

\* Line 61, evaluated after line 58 has assigned INFLUX_DB:
\* not table and (not INFLUX_TABLE or INFLUX_TABLE == db)
TableFollowsDb(table, cur_table, db) ==
    table = Unset /\ (cur_table = Unset \/ cur_table = db)

\* Lines 50-64: connect_influxdb3(url, token, org, db, schema, table).
connect_influxdb3 ==
    /\ \E url \in UrlArgs, token \in TokenArgs, org \in OrgArgs, db \in DbArgs,
          schema \in SchemaArgs, table \in TableArgs :
          LET after_db == IF db # Unset /\ TableFollowsDb(table, INFLUX_TABLE, db)
                          THEN db
                          ELSE INFLUX_TABLE
          IN  /\ INFLUX_URL' = IF url # Unset THEN url ELSE INFLUX_URL
              /\ INFLUX_TOKEN' = IF token # Unset THEN token ELSE INFLUX_TOKEN
              /\ INFLUX_ORG' = IF org # Unset THEN org ELSE INFLUX_ORG
              /\ INFLUX_DB' = IF db # Unset THEN db ELSE INFLUX_DB
              /\ INFLUX_SCHEMA' = IF schema # Unset THEN schema ELSE INFLUX_SCHEMA
              /\ INFLUX_TABLE' = IF table # Unset THEN table ELSE after_db
              /\ cf_call' = [db |-> db, table |-> table]
    /\ UNCHANGED other_than_cf

(* ------------------------------------------------------------------ *)
(* process_range in _fetch_bins_adaptive (src/src/slicks/scanner.py)    *)
(* ------------------------------------------------------------------ *)
\* Times are in units of the smallest step.  The chunk_days argument is
\* passed down and halved but never read, so the frames do not carry it.

\* Line 479: min_exists_span = step * 4
MinExistsFactor == 4

\* Values of step: one bucket, or two.
PRSteps == {1, 2}

\* One active generator process_range(client, t0, t1, ...).  at = "call": the
\* body has not run yet; "probe": inside query_exists_per_bin, cur its loop
\* variable and rows its list; "left" / "right": inside the loop over the
\* recursive generator of line 494 / 496.
PRFrame(t0, t1) ==
    [t0 |-> t0, t1 |-> t1, at |-> "call", mid |-> t0, cur |-> t0,
     rows |-> << >>]

\* One client.query call: kind "grouped" or "exists" on [t0, t1), out "rows",
\* "empty" or "raise".
Query(kind, t0, t1, out, exc) ==
    [kind |-> kind, t0 |-> t0, t1 |-> t1, out |-> out, exc |-> exc]

NoQuery == Query("none", 0, 0, "none", NoExc)

\* Lines 445-455: the (bucket, n) rows of a grouped count over [t0, t1):
\* len buckets that hold rows, counting from t0, two rows in each.
GroupedRows(t0, step, len) == [j \in 1 .. len |-> << t0 + (j - 1) * step, 2 >>]

PRInit ==
    /\ pr_t0 = 0
    /\ pr_t1 \in 1 .. MaxBins
    /\ pr_step \in PRSteps
    /\ pr_stack = << PRFrame(pr_t0, pr_t1) >>
    /\ pr_status = "run"
    /\ pr_out = << >>
    /\ pr_last = NoQuery

PRIdle ==
    /\ pr_t0 = 0
    /\ pr_t1 = 0
    /\ pr_step = 1
    /\ pr_stack = << >>
    /\ pr_status = "idle"
    /\ pr_out = << >>
    /\ pr_last = NoQuery

\* The innermost active generator and the ones it is consumed by.
PRTop == pr_stack[Len(pr_stack)]
PRCallers == SubSeq(pr_stack, 1, Len(pr_stack) - 1)

\* Line 480: (t1 - t0) <= min_exists_span
ExistsFloor(t0, t1, step) == (t1 - t0) <= step * MinExistsFactor

\* A plausible slip: permanent failures are re-raised, as adaptive_query does.
CaughtIfRecoverable(e) == ~is_permanent_error(e.msg)

\* Lines 473 and 488: except Exception catches whatever client.query raises.
Caught(e) == TRUE

RECURSIVE PRUnwind(_)
\* The innermost generator is exhausted: a consumer at line 494 goes on to
\* the generator of line 496; a consumer at line 496 is exhausted itself;
\* with no consumer left the top-level generator has returned.
PRUnwind(st) ==
    IF st = << >>
    THEN [stack |-> << >>, status |-> "returned"]
    ELSE LET p == st[Len(st)]
             rest == SubSeq(st, 1, Len(st) - 1)
         IN  IF p.at = "left"
             THEN [stack |-> rest \o << [p EXCEPT !.at = "right"],
                                        PRFrame(p.mid, p.t1) >>,
                   status |-> "run"]
             ELSE PRUnwind(rest)

\* The innermost generator returns.
PRReturn ==
    LET u == PRUnwind(PRCallers)
    IN  /\ pr_stack' = u.stack
        /\ pr_status' = u.status

\* An exception leaves the innermost generator: the consumers' for loops of
\* lines 494-497 are inside the except block, not inside a try.
PRRaise ==
    /\ pr_stack' = << >>
    /\ pr_status' = "raised"

\* The innermost generator enters query_exists_per_bin(client, t0, t1).
PREnterProbes ==
    pr_stack' = PRCallers \o << [PRTop EXCEPT !.at = "probe", !.cur = PRTop.t0,
                                               !.rows = << >>] >>

\* Lines 479-481: the range is at most 4 * step long.
PRExistsFloor ==
    /\ pr_status = "run"
    /\ PRTop.at = "call"
    /\ ExistsFloor(PRTop.t0, PRTop.t1, pr_step)
    /\ PREnterProbes
    /\ UNCHANGED << pr_t0, pr_t1, pr_step, pr_status, pr_out, pr_last >>
    /\ UNCHANGED other_than_pr

\* Lines 460-475, one iteration: the probe of one bucket finds a row, finds
\* none, or fails.
PRProbe ==
    /\ pr_status = "run"
    /\ PRTop.at = "probe"
    /\ PRTop.cur < PRTop.t1
    /\ LET cur == PRTop.cur
           nxt == IF cur + pr_step < PRTop.t1 THEN cur + pr_step ELSE PRTop.t1
           next(rows) == PRCallers \o << [PRTop EXCEPT !.cur = nxt, !.rows = rows] >>
       IN  \/ /\ pr_last' = Query("exists", cur, nxt, "rows", NoExc)
              /\ pr_stack' = next(Append(PRTop.rows, << cur, 1 >>))
              /\ pr_status' = pr_status
           \/ /\ pr_last' = Query("exists", cur, nxt, "empty", NoExc)
              /\ pr_stack' = next(PRTop.rows)
              /\ pr_status' = pr_status
           \/ \E e \in Failures :
                 /\ pr_last' = Query("exists", cur, nxt, "raise", e)
                 /\ IF Caught(e)
                    THEN pr_stack' = next(PRTop.rows) /\ pr_status' = pr_status
                    ELSE PRRaise
    /\ UNCHANGED << pr_t0, pr_t1, pr_step, pr_out >>
    /\ UNCHANGED other_than_pr

\* Lines 476 and 481-483 (491-493): query_exists_per_bin returns its rows,
\* which are yielded, and the generator returns.
PRProbesDone ==
    /\ pr_status = "run"
    /\ PRTop.at = "probe"
    /\ PRTop.cur >= PRTop.t1
    /\ pr_out' = pr_out \o PRTop.rows
    /\ PRReturn
    /\ UNCHANGED << pr_t0, pr_t1, pr_step, pr_last >>
    /\ UNCHANGED other_than_pr

\* Lines 484-487: the grouped count returns its rows, which are yielded.
PRGroupedReturns ==
    /\ pr_status = "run"
    /\ PRTop.at = "call"
    /\ ~ExistsFloor(PRTop.t0, PRTop.t1, pr_step)
    /\ \E len \in 0 .. MaxRows :
          /\ pr_last' = Query("grouped", PRTop.t0, PRTop.t1,
                              IF len = 0 THEN "empty" ELSE "rows", NoExc)
          /\ pr_out' = pr_out \o GroupedRows(PRTop.t0, pr_step, len)
    /\ PRReturn
    /\ UNCHANGED << pr_t0, pr_t1, pr_step >>
    /\ UNCHANGED other_than_pr

\* Lines 484-497: the grouped count fails; the range is halved, or probed
\* when it has no midpoint strictly inside it.
PRGroupedFails ==
    /\ pr_status = "run"
    /\ PRTop.at = "call"
    /\ ~ExistsFloor(PRTop.t0, PRTop.t1, pr_step)
    /\ \E e \in Failures :
          /\ pr_last' = Query("grouped", PRTop.t0, PRTop.t1, "raise", e)
          /\ IF ~Caught(e)
             THEN PRRaise
             ELSE /\ pr_status' = pr_status
                  /\ LET mid == Mid(PRTop.t0, PRTop.t1)
                     IN  IF Degenerate(PRTop.t0, mid, PRTop.t1)
                         THEN PREnterProbes
                         ELSE pr_stack' =
                                 PRCallers \o << [PRTop EXCEPT !.at = "left",
                                                               !.mid = mid],
                                                 PRFrame(PRTop.t0, mid) >>
    /\ UNCHANGED << pr_t0, pr_t1, pr_step, pr_out >>
    /\ UNCHANGED other_than_pr

(* ------------------------------------------------------------------ *)
(* Specifications                                                       *)
(* ------------------------------------------------------------------ *)

Init == ExecInit /\ AQIdle /\ CLIdle /\ CBIdle /\ DSIdle /\ CFIdle /\ PRIdle

Next ==
    \/ Enter
    \/ Submit
    \/ SubmitFactoryFails
    \/ CollectResult
    \/ Notify
    \/ CollectPermanent
    \/ CollectOther
    \/ CollectEnd
    \/ CancelNext
    \/ CloseNext
    \/ Leave
    \/ WorkerStart
    \/ WorkerSkipCancelled
    \/ WorkerReturn
    \/ WorkerRaise

Spec == Init /\ [][Next]_vars

InitAQ == AQInit /\ ExecIdle /\ CLIdle /\ CBIdle /\ DSIdle /\ CFIdle /\ PRIdle

NextAQ ==
    \/ AQSpanFloor
    \/ AQDepthFloor
    \/ AQPrimaryReturns
    \/ AQPrimaryPermanent
    \/ AQSplit
    \/ AQDegenerate

SpecAQ == InitAQ /\ [][NextAQ]_vars

InitAQOwn == AQInitOwn /\ ExecIdle /\ CLIdle /\ CBIdle /\ DSIdle /\ CFIdle /\ PRIdle

SpecAQOwn == InitAQOwn /\ [][NextAQ]_vars

\* adaptive_query is sequential code on one thread and primary_fn and
\* fallback_fn return or raise: a call that has a next step takes it.
SpecAQFair == SpecAQ /\ WF_vars(NextAQ)

InitCF == CFInit /\ ExecIdle /\ AQIdle /\ CLIdle /\ CBIdle /\ DSIdle /\ PRIdle

NextCF == connect_influxdb3

SpecCF == InitCF /\ [][NextCF]_vars

InitPR == PRInit /\ ExecIdle /\ AQIdle /\ CLIdle /\ CBIdle /\ DSIdle /\ CFIdle

NextPR ==
    \/ PRExistsFloor
    \/ PRProbe
    \/ PRProbesDone
    \/ PRGroupedReturns
    \/ PRGroupedFails

\* process_range is a generator consumed to exhaustion by list(...) (line
\* 383) on one thread, and every query returns or raises: while it has a
\* next step it takes it.
SpecPR == InitPR /\ [][NextPR]_vars /\ WF_vars(NextPR)

InitCL == CLInit /\ ExecIdle /\ AQIdle /\ CBIdle /\ DSIdle /\ CFIdle /\ PRIdle

NextCL == Classify

SpecCL == InitCL /\ [][NextCL]_vars

InitCB == CBInit /\ ExecIdle /\ AQIdle /\ CLIdle /\ DSIdle /\ CFIdle /\ PRIdle

NextCB == CompressBins

SpecCB == InitCB /\ [][NextCB]_vars

InitDS == DSInit /\ ExecIdle /\ AQIdle /\ CLIdle /\ CBIdle /\ CFIdle /\ PRIdle

NextDS ==
    \/ DSBuildChunk
    \/ DSRunChunks
    \/ Enter
    \/ DSSubmit
    \/ DSSubmitFails
    \/ CollectResult
    \/ Notify
    \/ CollectPermanent
    \/ CollectEnd
    \/ CancelNext
    \/ CloseNext
    \/ Leave
    \/ WorkerStart
    \/ WorkerSkipCancelled
    \/ DSWorkerReturn
    \/ DSWorkerRaise
    \/ DSFinish

SpecDS == InitDS /\ [][NextDS]_vars

\* The chunk loop of lines 88-93 is sequential code with no call that could
\* block: while it can take a step it takes one.
SpecDSFair == SpecDS /\ WF_vars(DSBuildChunk \/ DSRunChunks)

(* ------------------------------------------------------------------ *)
(* run_chunks_parallel: properties                                      *)
(* ------------------------------------------------------------------ *)

\* Every chunk's query_fn returned normally.
AllCompleted == \A i \in 0 .. (n - 1) : fstate[i] = "Completed"

\* Some chunk's query_fn raised PermanentQueryError.
SomePermanent == \E i \in Chunks : fexc[i] = "PermanentQueryError"

\* The calling thread has seen a PermanentQueryError come out of result().
Observed == raising = "PermanentQueryError"

RECURSIVE InChunkOrder(_)
\* The lists the first k futures hold, concatenated by ascending chunk index.
InChunkOrder(k) ==
    IF k = 0 THEN << >> ELSE InChunkOrder(k - 1) \o fresult[k - 1]

\* C1: when every chunk's query_fn returns normally, the call returns, and
\* what it returns is the concatenation of the chunks' lists in ascending
\* chunk-index order, whatever the order in which the chunks completed.
C1_ChunkOrder ==
    (pc = "done" /\ AllCompleted) =>
        (outcome = "return" /\ returned = InChunkOrder(n))

\* C1 witness: three chunks, collected out of index order, each with a row.
C1_Witness ==
    /\ pc = "done"
    /\ n = 3
    /\ AllCompleted
    /\ outcome = "return"
    /\ Len(results) = 3
    /\ results[1].idx > results[2].idx
    /\ Len(returned) = 3

\* C2 as stated: if any chunk's query_fn raised PermanentQueryError, the call
\* ends raising PermanentQueryError and hands no rows to the caller.
C2_Claim ==
    (pc = "done" /\ SomePermanent) =>
        (outcome = "PermanentQueryError" /\ returned = << >>)

\* C2 as amended: if any chunk's query_fn raised PermanentQueryError, the call
\* never returns normally and hands no rows to the caller; it raises
\* PermanentQueryError itself unless a failure of another kind occurred in
\* the call (a chunk raised something else, or client_factory failed).
C2_NoPartialResults ==
    (pc = "done" /\ SomePermanent) =>
        /\ outcome \in {"PermanentQueryError", "OtherError", "FactoryError"}
        /\ returned = << >>
        /\ outcome = "OtherError" => \E i \in Chunks : fexc[i] = "OtherError"
        /\ outcome = "FactoryError" => clients < n

\* C2 witness: PermanentQueryError raised after another chunk's rows had
\* already been stored.
C2_Witness ==
    /\ pc = "done"
    /\ outcome = "PermanentQueryError"
    /\ \E k \in 1 .. Len(results) : results[k].rows # << >>

\* C3 as stated: however the call ends, every connection obtained from
\* client_factory has been closed exactly once.
C3_Claim ==
    pc = "done" => \A i \in 0 .. (clients - 1) : closes[i] = 1

\* C4 as stated: once a PermanentQueryError has been observed, no chunk that
\* has not started yet ever starts.
C4_Claim ==
    [][Observed =>
          \A i \in Chunks : fstate[i] = "Pending" => fstate'[i] # "Running"]_vars

\* C4 as amended: a chunk still pending when the except handler calls cancel()
\* on its future becomes Cancelled; a Cancelled chunk stays Cancelled and never
\* runs; and once the handler's loop has finished, no chunk is pending and no
\* chunk starts.  (Before its own cancel() call a pending chunk may still be
\* started by a free worker.)
C4_CancelledNeverRuns ==
    [][/\ \A i \in Chunks : fstate[i] = "Cancelled" => fstate'[i] = "Cancelled"
       /\ (pc = "cancel" /\ cancel_i' = cancel_i + 1 /\ fstate[cancel_i] = "Pending")
             => fstate'[cancel_i] = "Cancelled"
       /\ (Observed /\ pc # "cancel") =>
             /\ \A i \in Chunks : fstate[i] # "Pending"
             /\ \A i \in Chunks : fstate'[i] = "Running" => fstate[i] = "Running"]_vars

\* C4 witness: the call has raised PermanentQueryError with a chunk Cancelled.
C4_Witness ==
    /\ pc = "done"
    /\ outcome = "PermanentQueryError"
    /\ \E i \in Chunks : fstate[i] = "Cancelled"

\* C5: on_chunk_done(i) is called only once chunk i's result is in the result
\* store, and in a run where every chunk completes successfully it is called
\* exactly once for each chunk index and for nothing else.
C5_CallbackOncePerChunk ==
    /\ \A k \in 1 .. Len(done_calls) :
          \E j \in 1 .. Len(results) : results[j].idx = done_calls[k]
    /\ (pc = "done" /\ AllCompleted /\ on_chunk_done) =>
          /\ Len(done_calls) = n
          /\ {done_calls[k] : k \in 1 .. Len(done_calls)} = 0 .. (n - 1)

\* C5 witness: three chunks on two workers, all completed, callback supplied.
C5_Witness ==
    /\ pc = "done"
    /\ on_chunk_done
    /\ n = 3
    /\ max_workers = 2
    /\ AllCompleted
    /\ Len(done_calls) = 3

\* C6: with an empty chunk sequence the call returns the empty list without
\* calling client_factory, creating the pool or starting a worker, and
\* without calling query_fn or on_chunk_done.
C6_EmptyInput ==
    n = 0 =>
        /\ pc \in {"start", "done"}
        /\ clients = 0
        /\ raising = "none"
        /\ pool = "none"
        /\ \A i \in Chunks : fstate[i] = "NotSubmitted"
        /\ done_calls = << >>
        /\ pc = "done" => (outcome = "return" /\ returned = << >>)

\* C6 witness: the call on an empty chunk sequence has returned.
C6_Witness == n = 0 /\ pc = "done"

(* ------------------------------------------------------------------ *)
(* adaptive_query: properties                                           *)
(* ------------------------------------------------------------------ *)

\* The failures whose message contains a permanent-failure signature.
PermanentFailures == {e \in Failures : is_permanent_error(e.msg)}

\* Call c is a primary_fn call that failed with a permanent-failure message.
PermanentCall(c) ==
    c.fn = "primary" /\ c.out = "raise" /\ c.exc \in PermanentFailures

\* Call c is a primary_fn call that failed recoverably on a range whose
\* midpoint lies strictly inside it.
SplitCall(c) ==
    /\ c.fn = "primary"
    /\ c.out = "raise"
    /\ c.exc \notin PermanentFailures
    /\ c.t0 < Mid(c.t0, c.t1)
    /\ Mid(c.t0, c.t1) < c.t1

\* Call c was made on a range inside [a, b).
Within(c, a, b) == a <= c.t0 /\ c.t1 <= b

RECURSIVE RowsOf(_, _, _)
\* The rows returned by calls from..to of the log, in call order.
RowsOf(log, from, to) ==
    IF from > to THEN << >>
    ELSE log[from].rows \o RowsOf(log, from + 1, to)

\* C7: a primary_fn failure with a permanent-failure message, at any depth, is
\* the last call made: the top-level call raises PermanentQueryError with that
\* message, nothing is split or called afterwards, and no rows are returned.
C7_PermanentAborts ==
    \A k \in 1 .. Len(aq_log) :
        PermanentCall(aq_log[k]) =>
            /\ k = Len(aq_log)
            /\ aq_status = "raised"
            /\ aq_exc = [type |-> "PermanentQueryError", msg |-> aq_log[k].exc.msg]
            /\ aq_stack = << >>
            /\ aq_val = << >>

\* C7 witness: the permanent failure came at depth >= 1, after a sub-range
\* had already produced rows.
C7_Witness ==
    /\ aq_status = "raised"
    /\ aq_exc.type = "PermanentQueryError"
    /\ Len(aq_log) >= 3
    /\ aq_log[Len(aq_log)].depth >= 1
    /\ \E k \in 1 .. Len(aq_log) : aq_log[k].rows # << >>

\* C8: after a recoverable failure on a range whose midpoint is strictly
\* inside it, every call on the left half precedes every call on the right
\* half, and the result is the left half's rows followed by the right half's;
\* when both halves succeed at once there were exactly 3 primary_fn calls.
C8_SplitLeftThenRight ==
    /\ \A k \in 1 .. Len(aq_log) :
          SplitCall(aq_log[k]) =>
              LET c == aq_log[k]
                  mid == Mid(c.t0, c.t1)
              IN  \A i, j \in (k + 1) .. Len(aq_log) :
                      (i < j /\ Within(aq_log[j], c.t0, mid))
                          => ~Within(aq_log[i], mid, c.t1)
    /\ (aq_status = "returned" /\ Len(aq_log) >= 1 /\ SplitCall(aq_log[1])) =>
          LET mid == Mid(aq_t0, aq_t1)
          IN  \E m \in 1 .. Len(aq_log) :
                  /\ \A i \in 2 .. m : Within(aq_log[i], aq_t0, mid)
                  /\ \A i \in (m + 1) .. Len(aq_log) : Within(aq_log[i], mid, aq_t1)
                  /\ aq_val = RowsOf(aq_log, 2, m) \o RowsOf(aq_log, m + 1, Len(aq_log))
    /\ (/\ aq_status = "returned"
        /\ Len(aq_log) >= 3
        /\ SplitCall(aq_log[1])
        /\ aq_log[2].fn = "primary" /\ aq_log[2].out = "ok"
        /\ aq_log[3].fn = "primary" /\ aq_log[3].out = "ok") =>
          /\ Len(aq_log) = 3
          /\ aq_log[2].t0 = aq_t0 /\ aq_log[2].t1 = Mid(aq_t0, aq_t1)
          /\ aq_log[3].t0 = Mid(aq_t0, aq_t1) /\ aq_log[3].t1 = aq_t1
          /\ aq_val = aq_log[2].rows \o aq_log[3].rows

\* C8 witness: one failing call, then both halves succeed with a row each.
C8_Witness ==
    /\ aq_status = "returned"
    /\ Len(aq_log) = 3
    /\ SplitCall(aq_log[1])
    /\ aq_log[2].out = "ok" /\ aq_log[2].rows # << >>
    /\ aq_log[3].out = "ok" /\ aq_log[3].rows # << >>

\* C9: when the first primary_fn call succeeds, the call returns exactly that
\* list after that one call: no split, no fallback_fn call.
C9_FirstSuccess ==
    (Len(aq_log) >= 1 /\ aq_log[1].fn = "primary" /\ aq_log[1].out = "ok") =>
        /\ aq_status = "returned"
        /\ Len(aq_log) = 1
        /\ aq_val = aq_log[1].rows

\* C9 witness: the first primary_fn call returned a row.
C9_Witness ==
    /\ aq_status = "returned"
    /\ Len(aq_log) = 1
    /\ aq_log[1].fn = "primary"
    /\ aq_log[1].rows # << >>

\* C10 as stated: with a min_span supplied, primary_fn is never called on a
\* range with (t1 - t0) <= min_span, and a top-level call on such a range
\* returns fallback_fn's list if a fallback is supplied, else the empty list.
C10_Claim ==
    aq_min_span # NoSpan =>
        /\ \A k \in 1 .. Len(aq_log) :
              aq_log[k].fn = "primary" =>
                  (aq_log[k].t1 - aq_log[k].t0) > aq_min_span
        /\ (aq_status = "returned" /\ (aq_t1 - aq_t0) <= aq_min_span) =>
              IF aq_fallback
              THEN /\ Len(aq_log) = 1
                   /\ aq_log[1].fn = "fallback"
                   /\ aq_val = aq_log[1].rows
              ELSE aq_log = << >> /\ aq_val = << >>

(* ------------------------------------------------------------------ *)
(* adaptive_query: the depth floor and the recoverable failures        *)
(* ------------------------------------------------------------------ *)

RECURSIVE Pow2(_)
\* 2^k for k >= 0.
Pow2(k) == IF k <= 0 THEN 1 ELSE 2 * Pow2(k - 1)

\* The indices of the fallback_fn calls in the call log.
FallbackCalls == {k \in 1 .. Len(aq_log) : aq_log[k].fn = "fallback"}

\* The call returned, a fallback was supplied, no min_span, and every
\* primary_fn call failed recoverably.
PrimaryAlwaysFailed ==
    /\ aq_status = "returned"
    /\ aq_fallback
    /\ aq_min_span = NoSpan
    /\ \A k \in 1 .. Len(aq_log) :
          aq_log[k].fn = "primary" =>
              aq_log[k].out = "raise" /\ aq_log[k].exc \notin PermanentFailures

\* C11 as stated: primary_fn is never called at a depth above max_depth, and
\* when every primary_fn call failed recoverably (fallback supplied, no
\* min_span) the result is made of fallback outputs only, is not empty (for a
\* fallback that returns rows), and the first fallback_fn call is at depth
\* max_depth + 1.
C11_Claim ==
    /\ \A k \in 1 .. Len(aq_log) :
          aq_log[k].fn = "primary" => aq_log[k].depth <= aq_max_depth
    /\ PrimaryAlwaysFailed =>
          /\ aq_val = RowsOf(aq_log, 1, Len(aq_log))
          /\ FallbackCalls # {}
          /\ (\A k \in FallbackCalls : aq_log[k].rows # << >>) => aq_val # << >>
          /\ \A k \in FallbackCalls :
                (\A j \in FallbackCalls : k <= j) =>
                    aq_log[k].depth = aq_max_depth + 1

\* C11, amended: primary_fn is never called at a depth above max_depth; a
\* top-level call already above max_depth returns the fallback's list, or the
\* empty list without any call when there is no fallback.  When every
\* primary_fn call failed recoverably (fallback supplied, no min_span), the
\* result is the fallback outputs in call order, at least one fallback_fn
\* call was made, and each fallback_fn call is at depth max_depth + 1 or, at a
\* smaller depth, on a range that cannot be halved; on a range of at least
\* 2^(max_depth + 1) microseconds every one is at depth max_depth + 1.
C11_DepthFloor ==
    /\ \A k \in 1 .. Len(aq_log) :
          aq_log[k].fn = "primary" => aq_log[k].depth <= aq_max_depth
    /\ (aq_status = "returned" /\ aq_max_depth < 0) =>
          IF aq_fallback
          THEN /\ Len(aq_log) = 1
               /\ aq_log[1].fn = "fallback"
               /\ aq_log[1].t0 = aq_t0 /\ aq_log[1].t1 = aq_t1
               /\ aq_val = aq_log[1].rows
          ELSE aq_log = << >> /\ aq_val = << >>
    /\ PrimaryAlwaysFailed =>
          /\ aq_val = RowsOf(aq_log, 1, Len(aq_log))
          /\ FallbackCalls # {}
          /\ (\A k \in FallbackCalls : aq_log[k].rows # << >>) => aq_val # << >>
          /\ \A k \in FallbackCalls :
                \/ aq_log[k].depth = aq_max_depth + 1
                \/ /\ aq_log[k].depth <= aq_max_depth
                   /\ (aq_log[k].t1 - aq_log[k].t0) <= 1
          /\ (aq_t1 - aq_t0) >= Pow2(aq_max_depth + 1) =>
                \A k \in FallbackCalls : aq_log[k].depth = aq_max_depth + 1

\* C11 witness: max_depth >= 1, every primary_fn call failed, and the result
\* holds the rows of fallback_fn calls made at depth max_depth + 1.
C11_Witness ==
    /\ PrimaryAlwaysFailed
    /\ aq_max_depth >= 1
    /\ aq_val # << >>
    /\ \E k \in FallbackCalls : aq_log[k].depth = aq_max_depth + 1
    /\ \E k \in 1 .. Len(aq_log) :
          aq_log[k].fn = "primary" /\ aq_log[k].depth = aq_max_depth

C13_Claim ==
    (\A k \in 1 .. Len(aq_log) :
         aq_log[k].out = "raise" => aq_log[k].exc \notin PermanentFailures)
        => aq_status # "raised"

(* ------------------------------------------------------------------ *)
(* is_permanent_error: properties                                       *)
(* ------------------------------------------------------------------ *)

\* C14: is_permanent_error returns a boolean for every message, the same one
\* on every call, and it is True exactly for the messages that hold one of the
\* nine signatures in any letter case, anywhere in the message; the empty
\* message, "timeout" and "resource limit exceeded" are recoverable.
C14_Classification ==
    /\ cl_result \in BOOLEAN
    /\ cl_calls >= 1 =>
          /\ cl_result = cl_expect
          /\ cl_msg \in RecoverableCores => cl_result = FALSE
          /\ cl_msg = << >> => cl_result = FALSE
          /\ cl_msg = MsgTimeout => cl_result = FALSE
          /\ cl_msg = MsgUnauthorized => cl_result = TRUE

\* C14 witness: a message holding a signature in capitals inside other text
\* was classified twice.
C14_Witness ==
    /\ cl_calls = 2
    /\ cl_result
    /\ Len(cl_msg) >= 3
    /\ cl_msg[1] = ":"
    /\ cl_msg[Len(cl_msg)] = ":"
    /\ cl_msg[2] \in {"T", "N", "U", "P", "I", "D", "B", "S"}

(* ------------------------------------------------------------------ *)
(* _compress_bins: properties                                           *)
(* ------------------------------------------------------------------ *)

\* Sample i of the sorted samples s begins a run: it is the first one, or its
\* start is not exactly one step after the start of the sample before it.
RunStart(s, i, step) ==
    i = 1 \/ s[i].bucket_start # s[i - 1].bucket_start + step

\* The positions at which the runs of s begin.
RunStarts(s, step) == {i \in 1 .. Len(s) : RunStart(s, i, step)}

\* The last position of the run that begins at b.
RunEnd(s, b, step) ==
    CHOOSE e \in b .. Len(s) :
        /\ \A i \in (b + 1) .. e : ~RunStart(s, i, step)
        /\ e = Len(s) \/ RunStart(s, e + 1, step)

RECURSIVE SumCounts(_, _, _)
\* The sum of the counts of samples from..to of s.
SumCounts(s, from, to) ==
    IF from > to THEN 0 ELSE s[from].n + SumCounts(s, from + 1, to)

\* The window of the run that begins at b.
RunWindow(s, b, step) ==
    LET e == RunEnd(s, b, step)
    IN  << s[b].bucket_start, s[e].bucket_start + step, e - b + 1,
           SumCounts(s, b, e) >>

RECURSIVE BinsBefore(_, _)
\* The number of samples counted by the windows before window k.
BinsBefore(w, k) == IF k <= 1 THEN 0 ELSE w[k - 1][3] + BinsBefore(w, k - 1)

\* The positions, in the sorted samples, of the samples that open a window.
WindowFirsts == {1 + BinsBefore(cb_windows, k) : k \in 1 .. Len(cb_windows)}

\* The positions of the samples whose start repeats the start before them.
Repeats(s) == {i \in 2 .. Len(s) : s[i].bucket_start = s[i - 1].bucket_start}

\* No two samples are less than one step apart (so none repeats a start).
WellSpaced ==
    \A i, j \in 1 .. Len(cb_pairs) :
        i # j =>
            \/ cb_pairs[i].bucket_start - cb_pairs[j].bucket_start >= cb_step
            \/ cb_pairs[j].bucket_start - cb_pairs[i].bucket_start >= cb_step

\* C15: the windows returned are, in order, one per maximal run of sorted
\* samples whose starts are exactly one step apart: (first start, last start +
\* step, number of samples, sum of their counts); a sample not exactly at the
\* open window's end begins a new window.  Buckets 0, 1, 2 and 10 with step 1
\* and one row each give [0, 3) with 3 buckets and [10, 11) with 1 bucket.
C15_MaximalRuns ==
    cb_pc = "done" =>
        LET s == SortedPairs(cb_pairs)
            starts == RunStarts(s, cb_step)
        IN  /\ Len(cb_windows) = Cardinality(starts)
            /\ \A b \in starts :
                  cb_windows[Cardinality({x \in starts : x <= b})]
                      = RunWindow(s, b, cb_step)
            /\ (/\ cb_step = 1
                /\ cb_pairs = << [bucket_start |-> 0, n |-> 1],
                                 [bucket_start |-> 1, n |-> 1],
                                 [bucket_start |-> 2, n |-> 1],
                                 [bucket_start |-> 10, n |-> 1] >>)
                  => cb_windows = << << 0, 3, 3, 3 >>, << 10, 11, 1, 1 >> >>

\* C15 witness: the example, given out of order.
C15_Witness ==
    /\ cb_pc = "done"
    /\ cb_step = 1
    /\ cb_pairs = << [bucket_start |-> 10, n |-> 1],
                     [bucket_start |-> 1, n |-> 1],
                     [bucket_start |-> 0, n |-> 1],
                     [bucket_start |-> 2, n |-> 1] >>
    /\ cb_windows = << << 0, 3, 3, 3 >>, << 10, 11, 1, 1 >> >>

\* C16 as stated: for every input the windows are sorted by start, pairwise
\* disjoint, never adjacent, and each has end - start = bucketCount * step.
C16_Claim ==
    cb_pc = "done" =>
        LET w == cb_windows
        IN  /\ \A i \in 1 .. (Len(w) - 1) : w[i][1] <= w[i + 1][1]
            /\ \A i, j \in 1 .. Len(w) : i < j => w[i][2] <= w[j][1]
            /\ \A i \in 1 .. (Len(w) - 1) : w[i][2] # w[i + 1][1]
            /\ \A i \in 1 .. Len(w) : w[i][2] - w[i][1] = w[i][3] * cb_step

\* C16, amended: for every input the windows are sorted by start, no window
\* ends exactly where the next one starts, and each has end - start =
\* bucketCount * step; they are pairwise disjoint exactly when no two samples
\* are less than one step apart (no repeated start, no start inside another
\* sample's bucket).
C16_WindowInvariant ==
    cb_pc = "done" =>
        LET w == cb_windows
        IN  /\ \A i \in 1 .. (Len(w) - 1) : w[i][1] <= w[i + 1][1]
            /\ \A i \in 1 .. (Len(w) - 1) : w[i][2] # w[i + 1][1]
            /\ \A i \in 1 .. Len(w) : w[i][2] - w[i][1] = w[i][3] * cb_step
            /\ WellSpaced <=> (\A i, j \in 1 .. Len(w) : i < j => w[i][2] < w[j][1])

\* C16 witness: an unsorted input with a gap gives two disjoint windows, the
\* first of them merged from two samples.
C16_Witness ==
    /\ cb_pc = "done"
    /\ WellSpaced
    /\ Len(cb_pairs) >= 3
    /\ cb_pairs[1].bucket_start > cb_pairs[2].bucket_start
    /\ Len(cb_windows) = 2
    /\ cb_windows[1][3] = 2

\* C17 as stated: a sample whose start repeats a start already merged into
\* the open window does not start a new window.
C17_Claim ==
    cb_pc = "done" =>
        \A i \in Repeats(SortedPairs(cb_pairs)) : i \notin WindowFirsts

\* C17, amended: a sample whose start repeats the start of the sample before
\* it is not dropped, and it is not accumulated into the open window either:
\* it closes the open window and begins a new window at the same start, which
\* overlaps the one just closed.
C17_RepeatOpensWindow ==
    cb_pc = "done" =>
        LET s == SortedPairs(cb_pairs)
            w == cb_windows
        IN  /\ BinsBefore(w, Len(w) + 1) = Len(cb_pairs)
            /\ \A i \in Repeats(s) :
                  \E k \in 2 .. Len(w) :
                      /\ 1 + BinsBefore(w, k) = i
                      /\ w[k][1] = s[i].bucket_start
                      /\ w[k - 1][2] = s[i].bucket_start + cb_step
                      /\ w[k - 1][2] > w[k][1]

\* C17 witness: two adjacent buckets, the second one given twice.
C17_Witness ==
    /\ cb_pc = "done"
    /\ cb_step = 1
    /\ Len(cb_pairs) = 3
    /\ {cb_pairs[i].bucket_start : i \in 1 .. 3} = {0, 1}
    /\ cb_windows[1] = << 0, 2, 2, 2 >>
    /\ Len(cb_windows) = 2
    /\ cb_windows[2][1] = 1

(* ------------------------------------------------------------------ *)
(* discover_sensors: properties                                         *)
(* ------------------------------------------------------------------ *)

\* The chunks built, by index.
BuiltChunks == 0 .. (Len(ds_chunks) - 1)

\* The length of chunk i in seconds.
ChunkSpan(i) == ds_chunks[i + 1][2] - ds_chunks[i + 1][1]

RECURSIVE QueriesUpTo(_)
\* The number of client.query calls made for chunks 0..(k - 1).
QueriesUpTo(k) == IF k <= 0 THEN 0 ELSE ds_queries[k - 1] + QueriesUpTo(k - 1)

\* The names in a list.
NamesIn(list) == {list[k] : k \in 1 .. Len(list)}

C19_Claim ==
    (ds_status = "returned" /\ ds_start < ds_end /\ ds_chunk_days >= 1) =>
        /\ \A i \in BuiltChunks : ds_queries[i] >= 1
        /\ QueriesUpTo(Len(ds_chunks))
              >= CeilDiv(ds_end - ds_start, ds_chunk_days * Day)
        /\ ds_data = {} => ds_result = << >>

\* C19, amended: with start_time < end_time and chunk_size_days >= 1,
\* ceil((end_time - start_time) / chunk_size_days) chunks are built, and when
\* the call returns every chunk longer than 10 seconds has issued at least one
\* query and a chunk of 10 seconds or less none; a 10-day range with 7-day
\* chunks issues at least 2; with an empty table the list returned is empty.
C19_QueryPerLongChunk ==
    (ds_status = "returned" /\ ds_start < ds_end /\ ds_chunk_days >= 1) =>
        /\ Len(ds_chunks) = CeilDiv(ds_end - ds_start, ds_chunk_days * Day)
        /\ \A i \in BuiltChunks :
              IF ChunkSpan(i) > DSMinSpan
              THEN ds_queries[i] >= 1
              ELSE ds_queries[i] = 0
        /\ (ds_chunk_days = 7 /\ ds_end - ds_start = 10 * Day) =>
              /\ Len(ds_chunks) = 2
              /\ QueriesUpTo(Len(ds_chunks)) >= 2
        /\ ds_data = {} => ds_result = << >>

\* C19 witness: the 10-day range with 7-day chunks and an empty table
\* returned the empty list after 2 queries.
C19_Witness ==
    /\ ds_status = "returned"
    /\ ds_chunk_days = 7
    /\ ds_end - ds_start = 10 * Day
    /\ ds_data = {}
    /\ QueriesUpTo(Len(ds_chunks)) = 2
    /\ ds_result = << >>

\* C20: the list discover_sensors returns is strictly ascending and holds
\* exactly the names the chunks returned, none of them NULL; when no query
\* fails these are the non-NULL names stored in the chunks longer than 10
\* seconds.
C20_SortedUniqueNames ==
    ds_status = "returned" =>
        /\ \A k \in 1 .. (Len(ds_result) - 1) : ds_result[k] < ds_result[k + 1]
        /\ NamesIn(ds_result) = UNION {NamesIn(fresult[i]) : i \in BuiltChunks}
        /\ Null \notin NamesIn(ds_result)
        /\ ds_limit = 10 * Day =>
              NamesIn(ds_result) =
                  {d.name : d \in {x \in ds_data :
                      /\ x.name # Null
                      /\ \E i \in BuiltChunks :
                            /\ ds_chunks[i + 1][1] <= x.t
                            /\ x.t < ds_chunks[i + 1][2]
                            /\ ChunkSpan(i) > DSMinSpan}}

\* C20 witness: two chunks returned sensor 2, the later chunk was collected
\* first, and the list returned is 1, 2, 3.
C20_Witness ==
    /\ ds_status = "returned"
    /\ Len(results) = 2
    /\ results[1].idx = 1
    /\ 2 \in NamesIn(fresult[0]) \cap NamesIn(fresult[1])
    /\ ds_result = << 1, 2, 3 >>

(* ------------------------------------------------------------------ *)
(* run_chunks_parallel: connections, waiting and the pool               *)
(* ------------------------------------------------------------------ *)

\* C21 (as stated): no chunk's query_fn is running, or is started, with a
\* connection that close() has already been called on.
C21_Claim ==
    \A i \in Chunks : fstate[i] = "Running" => closes[i] = 0

\* C22 (as stated): once the PermanentQueryError is on its way out of the
\* with block, the call can raise to its caller at once, whatever the other
\* chunks are doing.
C22_Claim ==
    (pc = "shutdown" /\ raising = "PermanentQueryError") => ENABLED Leave

\* C23: from the moment a PermanentQueryError has been observed, no step
\* writes the result store and no step calls on_chunk_done, not even when a
\* chunk completes successfully afterwards.
C23_NothingCollectedAfterPermanent ==
    [][raising = "PermanentQueryError" =>
          (results' = results /\ done_calls' = done_calls)]_vars

\* C23 witness: the PermanentQueryError has been observed and a chunk that
\* was still running then has completed since, its result never collected.
C23_Witness ==
    /\ raising = "PermanentQueryError"
    /\ \E i \in Chunks :
          /\ fstate[i] = "Completed"
          /\ i \notin yielded
          /\ \A k \in 1 .. Len(results) : results[k].idx # i

\* C24: at most max_workers chunks are Running, however many were submitted.
C24_AtMostMaxWorkersRunning ==
    Cardinality(Running) <= max_workers

\* C24 witness: max_workers chunks are Running while a further submitted
\* chunk waits in the queue.
C24_Witness ==
    /\ Cardinality(Running) = max_workers
    /\ \E i \in Chunks : fstate[i] = "Pending"

\* The moves of one future: submitted, taken by a worker or cancelled while
\* it waits, and finished by its query_fn returning or raising.
ChunkMoves ==
    { << "NotSubmitted", "Pending" >>,
      << "Pending", "Running" >>,
      << "Pending", "Cancelled" >>,
      << "Running", "Completed" >>,
      << "Running", "Failed" >> }

MinimalCall(c) ==
    /\ c.fn = "primary"
    /\ c.out = "raise"
    /\ c.exc \notin PermanentFailures
    /\ ~(c.t0 < Mid(c.t0, c.t1) /\ Mid(c.t0, c.t1) < c.t1)

\* The elements of a sequence.
Elems(s) == {s[j] : j \in 1 .. Len(s)}

\* C26: after primary_fn failed recoverably on a range that cannot be halved,
\* no call is made inside that range at a greater depth; with a fallback the
\* next call is fallback_fn on the same range at the same depth and what it
\* returns is what this call returns; without one nothing more is called for
\* the range and the call returns the empty list.
C26_MinimalRangeNotSplit ==
    \A k \in 1 .. Len(aq_log) :
        LET c == aq_log[k]
        IN  MinimalCall(c) =>
              /\ \A j \in (k + 1) .. Len(aq_log) :
                    ~(aq_log[j].depth > c.depth /\ Within(aq_log[j], c.t0, c.t1))
              /\ aq_fallback =>
                    /\ k < Len(aq_log)
                    /\ aq_log[k + 1].fn = "fallback"
                    /\ aq_log[k + 1].t0 = c.t0
                    /\ aq_log[k + 1].t1 = c.t1
                    /\ aq_log[k + 1].depth = c.depth
                    /\ aq_status = "returned" =>
                          Elems(aq_log[k + 1].rows) \subseteq Elems(aq_val)
                    /\ (aq_status = "returned" /\ c.depth = 0) =>
                          aq_val = aq_log[k + 1].rows
              /\ ~aq_fallback =>
                    /\ \A j \in (k + 1) .. Len(aq_log) :
                          ~Within(aq_log[j], c.t0, c.t1)
                    /\ (aq_status = "returned" /\ c.depth = 0) => aq_val = << >>

\* C26 witness: below the top level primary_fn failed recoverably on a range
\* one microsecond long, the fallback was called on it and its rows are in
\* the list returned.
C26_Witness ==
    /\ aq_status = "returned"
    /\ \E k \in 1 .. (Len(aq_log) - 1) :
          /\ MinimalCall(aq_log[k])
          /\ aq_log[k].depth > 0
          /\ aq_log[k].t1 = aq_log[k].t0 + 1
          /\ aq_log[k + 1].fn = "fallback"
          /\ aq_log[k + 1].rows # << >>
          /\ Elems(aq_log[k + 1].rows) \subseteq Elems(aq_val)

\* The indices of the primary_fn calls in the call log.
PrimaryCalls == {k \in 1 .. Len(aq_log) : aq_log[k].fn = "primary"}

\* C27: with max_depth >= 0 no call of adaptive_query, primary_fn or
\* fallback_fn is made at a depth greater than max_depth + 1 and primary_fn is
\* called at most 2^(max_depth+1) - 1 times; and the top-level call
\* eventually returns or raises.
C27_Terminates ==
    /\ [](aq_max_depth >= 0 =>
             /\ \A k \in 1 .. Len(aq_stack) : aq_stack[k].depth <= aq_max_depth + 1
             /\ \A k \in 1 .. Len(aq_log) : aq_log[k].depth <= aq_max_depth + 1
             /\ Cardinality(PrimaryCalls) <= Pow2(aq_max_depth + 1) - 1)
    /\ <>(aq_status \in {"returned", "raised"})

\* C27 witness: with max_depth = 1 the call returned after 2^2 - 1 primary_fn
\* calls, all of which failed, and fallback_fn was called at depth 2.
C27_Witness ==
    /\ aq_status = "returned"
    /\ aq_max_depth = 1
    /\ Cardinality(PrimaryCalls) = 3
    /\ \E k \in 1 .. Len(aq_log) :
          aq_log[k].fn = "fallback" /\ aq_log[k].depth = 2

\* The ranges in leaves are each non-empty, in chronological order, and tile
\* [a, b): the first starts at a, the last ends at b, and each one starts
\* where the one before it ends.
Tiles(leaves, a, b) ==
    /\ Len(leaves) >= 1
    /\ leaves[1][1] = a
    /\ leaves[Len(leaves)][2] = b
    /\ \A k \in 1 .. Len(leaves) : leaves[k][1] < leaves[k][2]
    /\ \A k \in 1 .. (Len(leaves) - 1) : leaves[k][2] = leaves[k + 1][1]

\* The indices of the primary_fn calls that returned.
Successes ==
    {k \in 1 .. Len(aq_log) : aq_log[k].fn = "primary" /\ aq_log[k].out = "ok"}

\* C29 (as stated): whenever the call returns, its leaf ranges are non-empty,
\* chronological and tile [t0, t1).
C29_Claim ==
    aq_status = "returned" => Tiles(aq_leaves, aq_t0, aq_t1)

\* C29: whenever a call on a range with t0 < t1 returns, its leaf ranges
\* (primary_fn succeeded, or the fallback or the empty list was used) are
\* non-empty, chronological and tile [t0, t1), and no two successful
\* primary_fn calls share an instant.
C29_LeavesTile ==
    (aq_status = "returned" /\ aq_t0 < aq_t1) =>
        /\ Tiles(aq_leaves, aq_t0, aq_t1)
        /\ \A j, k \in Successes : j < k => aq_log[j].t1 <= aq_log[k].t0

\* C29 witness: a call returned with at least three leaves, one where
\* primary_fn succeeded and a later one where it did not.
C29_Witness ==
    /\ aq_status = "returned"
    /\ aq_t0 < aq_t1
    /\ Len(aq_leaves) >= 3
    /\ \E k \in Successes :
          /\ aq_log[k].depth >= 1
          /\ << aq_log[k].t0, aq_log[k].t1 >> = aq_leaves[1]
    /\ \A k \in Successes : aq_log[k].t1 < aq_t1

(* ------------------------------------------------------------------ *)
(* adaptive_query: a PermanentQueryError raised by primary_fn           *)
(* ------------------------------------------------------------------ *)

\* C30 (as stated): when primary_fn raises a PermanentQueryError, whatever its
\* message, that is the last call made and the top-level call raises
\* PermanentQueryError.
C30_Claim ==
    \A k \in 1 .. Len(aq_log) :
        (/\ aq_log[k].fn = "primary"
         /\ aq_log[k].out = "raise"
         /\ aq_log[k].exc.type = "PermanentQueryError") =>
            /\ k = Len(aq_log)
            /\ aq_status = "raised"
            /\ aq_exc.type = "PermanentQueryError"

(* ------------------------------------------------------------------ *)
(* connect_influxdb3: properties                                        *)
(* ------------------------------------------------------------------ *)

\* C28 (as stated): a connect_influxdb3 call with a db and without a table,
\* made while the configured table equals the configured database, leaves the
\* configured table equal to the new database.
C28_Claim ==
    [][(/\ cf_call'.db # Unset
        /\ cf_call'.table = Unset
        /\ INFLUX_TABLE = INFLUX_DB) => INFLUX_TABLE' = cf_call'.db]_vars

(* ------------------------------------------------------------------ *)
(* _compress_bins: conservation and input order                         *)
(* ------------------------------------------------------------------ *)

RECURSIVE RowsBefore(_, _)
\* The sum of the row counts of the windows before window k.
RowsBefore(w, k) == IF k <= 1 THEN 0 ELSE w[k - 1][4] + RowsBefore(w, k - 1)

\* C31: the bucket counts of the windows returned sum to the number of input
\* samples, their row counts sum to the sum of the input counts, and an empty
\* input gives no windows.
C31_Conserves ==
    cb_pc = "done" =>
        /\ BinsBefore(cb_windows, Len(cb_windows) + 1) = Len(cb_pairs)
        /\ RowsBefore(cb_windows, Len(cb_windows) + 1)
              = SumCounts(cb_pairs, 1, Len(cb_pairs))
        /\ cb_pairs = << >> => cb_windows = << >>

\* C31 witness: four samples with six rows in all, one start given twice,
\* returned as three windows, one of them merged from two samples.
C31_Witness ==
    /\ cb_pc = "done"
    /\ Len(cb_pairs) = 4
    /\ SumCounts(cb_pairs, 1, 4) = 6
    /\ Repeats(SortedPairs(cb_pairs)) # {}
    /\ Len(cb_windows) = 3
    /\ \E k \in 1 .. 3 : cb_windows[k][3] = 2

\* pairs with the samples at positions i and j exchanged.
Exchanged(pairs, i, j) ==
    [k \in 1 .. Len(pairs) |->
        IF k = i THEN pairs[j] ELSE IF k = j THEN pairs[i] ELSE pairs[k]]

\* No two samples have the same start and different counts.
NoConflictingRepeat ==
    \A i, j \in 1 .. Len(cb_pairs) :
        cb_pairs[i].bucket_start = cb_pairs[j].bucket_start
            => cb_pairs[i].n = cb_pairs[j].n

\* C32 (as stated): exchanging any two samples of the input (and so, every
\* input being covered, permuting it in any way) leaves the list of windows
\* returned the same.
C32_Claim ==
    cb_pc = "done" =>
        \A i, j \in 1 .. Len(cb_pairs) :
            compress_bins(Exchanged(cb_pairs, i, j), cb_step) = cb_windows

\* C32, amended: when no two samples have the same start and different
\* counts, exchanging any two samples of the input leaves the list of windows
\* returned the same; two samples with the same start and different counts
\* give, exchanged, a different list.
C32_OrderIndependent ==
    cb_pc = "done" =>
        /\ NoConflictingRepeat =>
              \A i, j \in 1 .. Len(cb_pairs) :
                  compress_bins(Exchanged(cb_pairs, i, j), cb_step) = cb_windows
        /\ \A i, j \in 1 .. Len(cb_pairs) :
              (/\ cb_pairs[i].bucket_start = cb_pairs[j].bucket_start
               /\ cb_pairs[i].n # cb_pairs[j].n)
                  => compress_bins(Exchanged(cb_pairs, i, j), cb_step) # cb_windows

\* C32 witness: four samples given in descending order of start, one of them
\* twice, are merged into fewer windows than samples.
C32_Witness ==
    /\ cb_pc = "done"
    /\ NoConflictingRepeat
    /\ Len(cb_pairs) = 4
    /\ \A i \in 1 .. 3 : cb_pairs[i].bucket_start >= cb_pairs[i + 1].bucket_start
    /\ Repeats(SortedPairs(cb_pairs)) # {}
    /\ Len(cb_windows) = 3

(* ------------------------------------------------------------------ *)
(* discover_sensors: the chunk-building loop                            *)
(* ------------------------------------------------------------------ *)

\* The chunk loop has ended.
ChunksBuilt == ds_pc # "build"

\* Every chunk is at most chunk_size_days long.
WithinChunkSize ==
    \A k \in 1 .. Len(ds_chunks) :
        ds_chunks[k][2] - ds_chunks[k][1] <= ds_chunk_days * Day

\* C33 (as stated): the loop ends, and the chunks are chronological,
\* non-empty, at most chunk_size_days long and tile [start_time, end_time),
\* whatever chunk_size_days is; start_time >= end_time gives no chunk.
C33_Claim ==
    ChunksBuilt =>
        IF ds_start >= ds_end
        THEN ds_chunks = << >>
        ELSE Tiles(ds_chunks, ds_start, ds_end) /\ WithinChunkSize

\* C33, amended: the loop ends for every start_time, end_time and
\* chunk_size_days; with start_time < end_time and chunk_size_days >= 1 the
\* chunks are chronological, non-empty, at most chunk_size_days long and tile
\* [start_time, end_time); with start_time >= end_time, or with
\* chunk_size_days zero or negative, there is no chunk.
C33_ChunkLoop ==
    /\ [](ChunksBuilt =>
             IF ds_start < ds_end /\ ds_chunk_days >= 1
             THEN Tiles(ds_chunks, ds_start, ds_end) /\ WithinChunkSize
             ELSE ds_chunks = << >>)
    /\ <>ChunksBuilt

\* C33 witness: a range of two days and 12 seconds cut into one-day chunks:
\* three chunks, the last one 12 seconds long.
C33_Witness ==
    /\ ChunksBuilt
    /\ ds_chunk_days = 1
    /\ Len(ds_chunks) = 3
    /\ ds_chunks[3][2] - ds_chunks[3][1] = 12
    /\ ds_chunks[3][2] = ds_end

(* ------------------------------------------------------------------ *)
(* process_range: properties                                            *)
(* ------------------------------------------------------------------ *)

\* The latest query was a probe made by the innermost generator, which is
\* still collecting the rows of its probes.
ProbeJustMade ==
    /\ pr_status = "run"
    /\ pr_last.kind = "exists"
    /\ PRTop.at = "probe"
    /\ PRTop.t0 <= pr_last.t0
    /\ PRTop.cur = pr_last.t1

\* C34: no query failure, recoverable or permanent, leaves process_range; a
\* grouped count is only made on a range longer than 4 * step, and when it
\* fails the range is halved and the left half is processed next; a range of
\* at most 4 * step is never halved but probed bucket by bucket, each probe
\* at most one step long, and a probe that fails adds no pair, like one that
\* finds no row; and the generator is eventually exhausted.
C34_NeverPropagates ==
    /\ [](/\ pr_status # "raised"
          /\ pr_last.kind = "grouped" =>
                pr_last.t1 - pr_last.t0 > MinExistsFactor * pr_step
          /\ (pr_last.kind = "grouped" /\ pr_last.out = "raise") =>
                /\ pr_status = "run"
                /\ Len(pr_stack) >= 2
                /\ PRTop.t0 = pr_last.t0
                /\ PRTop.t1 = Mid(pr_last.t0, pr_last.t1)
                /\ pr_last.t0 < PRTop.t1 /\ PRTop.t1 < pr_last.t1
                /\ pr_stack[Len(pr_stack) - 1].at = "left"
                /\ pr_stack[Len(pr_stack) - 1].t1 = pr_last.t1
          /\ \A k \in 1 .. Len(pr_stack) :
                LET f == pr_stack[k]
                    short == f.t1 - f.t0 <= MinExistsFactor * pr_step
                IN  /\ short => f.at \in {"call", "probe"}
                    /\ f.at = "probe" => short
          /\ pr_last.kind = "exists" => pr_last.t1 - pr_last.t0 <= pr_step
          /\ ProbeJustMade =>
                IF pr_last.out = "rows"
                THEN PRTop.rows[Len(PRTop.rows)] = << pr_last.t0, 1 >>
                ELSE \A j \in 1 .. Len(PRTop.rows) :
                        PRTop.rows[j][1] # pr_last.t0)
    /\ <>(pr_status = "returned")

\* C34 witness: after two grouped counts failed and the first quarter was
\* probed and gave pairs, a probe in the second quarter fails with a
\* permanent failure.
C34_Witness ==
    /\ pr_status = "run"
    /\ Len(pr_stack) = 3
    /\ pr_stack[2].at = "right"
    /\ pr_out # << >>
    /\ pr_last.kind = "exists"
    /\ pr_last.out = "raise"
    /\ pr_last.exc.msg = MsgUnauthorized

====
